---- MODULE Spec2Model ----
(***************************************************************************)
(* A model of discobolt's routing-and-dispatch engine: the matchers and    *)
(* their priority-sorted lists (matchers file, router.go), the per-request *)
(* Context chain with its shared consumed flag, the output negotiation of  *)
(* consumeHandler and the error resolver handleError (context.go), and the *)
(* client address RemoteIP takes from the table of known proxies           *)
(* (proxy_table.go, known_proxies.txt).                                    *)
(*                                                                         *)
(* Strings are sequences of one-character strings where the code works on  *)
(* bytes (paths), and sequences of tokens where it works on header values. *)
(***************************************************************************)
EXTENDS Integers, Sequences, FiniteSets, TLC

VARIABLES
    goBuild,     \* the toolchain the module is built with (go.mod: go 1.18 or later)
    tree,        \* the route definitions of the application (the user's closures)
    errHandler,  \* Router.errHandler: "none" or the installed handler's behaviour
    rhandlers,   \* Router.handlers
    nreg,        \* number of matchers registered so far (identity of a registration)
    req,         \* the *http.Request: method, path and headers
    ckOut,       \* the name of the application's Check that fails, or "none"
    phase,       \* "setup" | "serving" | "done", "panicked" if a panic left ServeHTTP
    setupPc,     \* next top-level registration statement of the application
    base,        \* contextBase: [consumed, w] shared by every Context of a request
    ctxs,        \* the Context objects of the request, root first
    stack,       \* call stack of ServeHTTP: serve / hn (continuation) / after frames
    log,         \* what happened, in order (ghost)
    remoteAddr,  \* Request.RemoteAddr: [host, port]
    header,      \* Request.Header, the forwarding headers: name -> value ("" if absent)
    disableAutoProxy, \* Router.disableAutoProxy
    remoteIP     \* what the last call of Context.RemoteIP returned, if it was called

vars == <<goBuild, tree, errHandler, rhandlers, nreg, req, ckOut, phase,
          setupPc, base, ctxs, stack, log, remoteAddr, header, disableAutoProxy,
          remoteIP>>

-----------------------------------------------------------------------------
(* Bounds of the model.                                                    *)

\* Most matchers registered on one list in the registration specification.
MaxReg == 7

-----------------------------------------------------------------------------
(* Small helpers.                                                          *)

Min(S) == CHOOSE x \in S : \A y \in S : x <= y

Swap(a, i, j) == [a EXCEPT ![i] = a[j], ![j] = a[i]]

-----------------------------------------------------------------------------
(* Path cursor and matchers.                                               *)

\* consumeUntilSlash: leading slashes are dropped (the goto restarts the scan
\* on path[1:]), then the bytes before the next slash are the contents and the
\* rest, starting at that slash, is the remainder.
\* A bug that forgets to restart the scan after a leading slash.
consumeUntilSlashNoRestart(path) ==
    LET slashes == {i \in 1..Len(path) : path[i] = "/"} IN
    IF slashes = {} THEN [contents |-> path, remainder |-> <<>>]
    ELSE [contents  |-> SubSeq(path, 1, Min(slashes) - 1),
          remainder |-> SubSeq(path, Min(slashes), Len(path))]

RECURSIVE consumeUntilSlash(_)
consumeUntilSlash(path) ==
    LET slashes == {i \in 1..Len(path) : path[i] = "/"} IN
    IF slashes = {} THEN [contents |-> path, remainder |-> <<>>]
    ELSE LET i == Min(slashes) IN
         IF i = 1 THEN consumeUntilSlash(Tail(path))
         ELSE [contents  |-> SubSeq(path, 1, i - 1),
               remainder |-> SubSeq(path, i, Len(path))]

Digits == <<"0", "1", "2", "3", "4", "5", "6", "7", "8", "9">>

IsDigit(c) == \E d \in 1..10 : Digits[d] = c

DigitValue(c) == (CHOOSE d \in 1..10 : Digits[d] = c) - 1

RECURSIVE DecimalValue(_)
DecimalValue(s) ==
    IF s = <<>> THEN 0
    ELSE 10 * DecimalValue(SubSeq(s, 1, Len(s) - 1)) + DigitValue(s[Len(s)])

\* strconv.Atoi on short inputs: an optional sign and at least one digit.
Atoi(s) ==
    LET signed == s # <<>> /\ s[1] \in {"+", "-"}
        digits == IF signed THEN Tail(s) ELSE s
    IN  IF digits = <<>> \/ \E i \in 1..Len(digits) : ~IsDigit(digits[i])
        THEN [err |-> TRUE, i |-> 0]
        ELSE [err |-> FALSE,
              i   |-> IF signed /\ s[1] = "-" THEN 0 - DecimalValue(digits)
                      ELSE DecimalValue(digits)]

\* url.PathUnescape: a "%" must be followed by two hex digits.  The paths of
\* the model carry at most the escape %41 ("A"); any other well-formed escape
\* is kept as its three bytes in brackets.
HexDigits == {"0", "1", "2", "3", "4", "5", "6", "7", "8", "9",
              "a", "b", "c", "d", "e", "f", "A", "B", "C", "D", "E", "F"}

RECURSIVE PathUnescape(_)
PathUnescape(s) ==
    IF s = <<>> THEN [err |-> FALSE, s |-> <<>>]
    ELSE IF s[1] # "%"
         THEN LET rest == PathUnescape(Tail(s)) IN
              [err |-> rest.err, s |-> <<s[1]>> \o rest.s]
    ELSE IF Len(s) < 3 \/ s[2] \notin HexDigits \/ s[3] \notin HexDigits
         THEN [err |-> TRUE, s |-> <<>>]
    ELSE LET rest == PathUnescape(SubSeq(s, 4, Len(s)))
             byte == IF s[2] = "4" /\ s[3] = "1" THEN "A"
                     ELSE "[%" \o s[2] \o s[3] \o "]"
         IN  [err |-> rest.err, s |-> <<byte>> \o rest.s]

\* A Go value of type `any`: what a matcher hands to its continuation, what a
\* handler returns, what is rendered.  k is the dynamic type, i and s the
\* payload, perm the Permanent field of a Redirect.
Val(k, i, s, perm) == [k |-> k, i |-> i, s |-> s, perm |-> perm]

NilVal == Val("nil", 0, <<>>, FALSE)

IntVal(i) == Val("int", i, <<>>, FALSE)

StringVal(s) == Val("string", 0, s, FALSE)

NoMatch(path) == [ok |-> FALSE, remainder |-> path, val |-> NilVal]

\* Static's check closure.
StaticCheck(text, path) ==
    LET cu == consumeUntilSlash(path) IN
    IF cu.contents = text
    THEN [ok |-> TRUE, remainder |-> cu.remainder, val |-> NilVal]
    ELSE NoMatch(path)

\* Int's check closure.
IntCheck(path) ==
    LET cu == consumeUntilSlash(path)
        r  == Atoi(cu.contents)
    IN  IF r.err THEN NoMatch(path)
        ELSE [ok |-> TRUE, remainder |-> cu.remainder, val |-> IntVal(r.i)]

\* A bug that lets String capture an empty segment.
StringCheckAllowsEmpty(path) ==
    LET cu == consumeUntilSlash(path)
        x  == PathUnescape(cu.contents)
    IN  IF x.err THEN NoMatch(path)
        ELSE [ok |-> TRUE, remainder |-> cu.remainder, val |-> StringVal(x.s)]

\* String's check closure.
StringCheck(path) ==
    LET cu == consumeUntilSlash(path)
        x  == PathUnescape(cu.contents)
    IN  IF Len(cu.contents) = 0 THEN NoMatch(path)
        ELSE IF x.err THEN NoMatch(path)
        ELSE [ok |-> TRUE, remainder |-> cu.remainder, val |-> StringVal(x.s)]

\* Remainder's check closure.
RemainderCheck(path) ==
    IF Len(path) > 1
    THEN [ok |-> TRUE, remainder |-> <<>>, val |-> StringVal(path)]
    ELSE NoMatch(path)

StaticPriority    == 2
IntPriority       == 1
StringPriority    == 1
RemainderPriority == 2

MatcherKinds == {"Static", "Int", "String", "Remainder"}

PriorityOf(kind) ==
    CASE kind = "Static"    -> StaticPriority
      [] kind = "Int"       -> IntPriority
      [] kind = "String"    -> StringPriority
      [] kind = "Remainder" -> RemainderPriority

\* The handler struct a matcher function builds: check and execute are
\* closures over (kind, text, body); reg is the ordinal of the registration.
MkHandler(kind, text, body, reg) ==
    [kind |-> kind, text |-> text, body |-> body,
     priority |-> PriorityOf(kind), reg |-> reg]

\* handler.check
HandlerCheck(h, path) ==
    CASE h.kind = "Static"    -> StaticCheck(h.text, path)
      [] h.kind = "Int"       -> IntCheck(path)
      [] h.kind = "String"    -> StringCheck(path)
      [] h.kind = "Remainder" -> RemainderCheck(path)

-----------------------------------------------------------------------------
(* routesSorter and sort.Sort.                                             *)

\* A bug that orders the list by ascending priority.
LessAscending(a, i, j) == a[i].priority < a[j].priority

\* routesSorter.Less
Less(a, i, j) == a[i].priority > a[j].priority

RECURSIVE insertionInner(_, _)
insertionInner(a, j) ==
    IF j > 1 /\ Less(a, j, j - 1)
    THEN insertionInner(Swap(a, j, j - 1), j - 1)
    ELSE a

RECURSIVE insertionFrom(_, _)
insertionFrom(a, i) ==
    IF i > Len(a) THEN a ELSE insertionFrom(insertionInner(a, i), i + 1)

\* sort's insertionSort over the whole slice.
insertionSort(a) == insertionFrom(a, 2)

\* The ShellSort pass with gap 6 that quickSort of go 1.18 runs on a slice of
\* at most 12 elements before insertionSort.
RECURSIVE shellPassFrom(_, _)
shellPassFrom(a, i) ==
    IF i > Len(a) THEN a
    ELSE shellPassFrom(IF Less(a, i, i - 6) THEN Swap(a, i, i - 6) ELSE a, i + 1)

shellPass(a) == shellPassFrom(a, 7)

GoBuilds == {"go1.18", "go1.19+"}

\* sort.Sort(routesSorter{a}) on a slice of at most 12 elements.  sort.Sort is
\* documented as not stable; which order equal elements end in depends on the
\* toolchain: go 1.18 (the version go.mod names) runs the gap-6 pass and then
\* insertionSort, go 1.19 and later (pdqsort) run insertionSort alone.
sortSort(a, build) ==
    IF Len(a) <= 1 THEN a
    ELSE IF build = "go1.18" THEN insertionSort(shellPass(a))
    ELSE insertionSort(a)

\* Router.addHandler and the append-and-sort of Context.addHandler.
addHandler(handlers, h, build) == sortSort(Append(handlers, h), build)

-----------------------------------------------------------------------------
(* Errors.  An error is its Unwrap chain, outermost link first; nil is the  *)
(* empty chain.  A link is a RouteNotFound sentinel, a BadRequest wrapper,  *)
(* a UserFacingError (with its Status() and Body()), or a plain error.      *)

Link(t, name, status, body) == [t |-> t, name |-> name, status |-> status, body |-> body]

NilErr == <<>>

RouteNotFound == <<Link("notfound", "route not found", 0, NilVal)>>

PlainErr(name) == <<Link("plain", name, 0, NilVal)>>

\* A bug that hands the decoder's error on as it is.
BadRequestNotWrapped(e) == e

\* BadRequest{Err: e}: Unwrap returns e.
BadRequest(e) == <<Link("badreq", "bad request", 0, NilVal)>> \o e

\* An error implementing UserFacingError that wraps nothing.
UserFacing(status, body) == <<Link("uf", "user facing", status, body)>>

\* errors.Is(err, RouteNotFound)
IsRouteNotFound(err) == \E i \in 1..Len(err) : err[i].t = "notfound"

\* IsBadRequest: walks the Unwrap chain for a BadRequest.
IsBadRequest(err) == \E i \in 1..Len(err) : err[i].t = "badreq"

\* A bug that looks at the error itself and never unwraps it.
FirstUserFacingNoUnwrap(err) ==
    IF err # <<>> /\ err[1].t = "uf" THEN 1 ELSE 0

\* The loop of handleError hunting the first UserFacingError of the chain;
\* 0 when there is none.
FirstUserFacing(err) ==
    LET S == {i \in 1..Len(err) : err[i].t = "uf"} IN
    IF S = {} THEN 0 ELSE Min(S)

-----------------------------------------------------------------------------
(* Values to render and what the marshallers do with them.                 *)
(*   string   a Go string                                                  *)
(*   struct   a struct with exported fields and no String()/HTML()         *)
(*   map      a map (map[string]string and the like)                       *)
(*   inf      a float64 holding +Inf                                       *)
(*   page     a struct with String() and HTML() (README's userError)       *)
(*   badpage  a struct whose HTML() returns an error                       *)
(*   nilptr / nilslice / nilmap   nil values of those kinds                *)
(*   redirect / redirectptr / nilredirectptr   Redirect, *Redirect, nil    *)

BodyVal(k) == Val(k, 0, <<>>, FALSE)

RedirectVal(k, perm) == Val(k, 0, <<"/", "t">>, perm)

\* map[string]string{"message": message}
MessageBody(message) == Val("map", 0, <<message>>, FALSE)

\* reflect: Kind is Ptr, Interface, Map, Func, Slice or Chan and IsNil().
IsNilKind(v) == v.k \in {"nilptr", "nilslice", "nilmap", "nilredirectptr"}

\* json.Marshal fails on +Inf (unsupported value).
JSONMarshalFails(v) == v.k = "inf"

\* xml.Marshal fails on maps (unsupported type).
XMLMarshalFails(v) == v.k \in {"map", "nilmap"}

MsgpackEncodeFails(v) == FALSE

YAMLMarshalFails(v) == FALSE

\* body.(string) or body.(stringer)
IsStringer(v) == v.k \in {"string", "page"}

\* body.(htmler)
IsHTMLer(v) == v.k \in {"page", "badpage"}

HTMLFails(v) == v.k = "badpage"

-----------------------------------------------------------------------------
(* Header values: a header is a sequence of tokens, "" (absent) is <<>>.   *)

JSONType == <<"application/json">>

\* strings.Split(s, ",") on a non-empty header.
RECURSIVE SplitComma(_)
SplitComma(s) ==
    LET commas == {i \in 1..Len(s) : s[i] = ","} IN
    IF commas = {} THEN <<s>>
    ELSE LET i == Min(commas) IN
         <<SubSeq(s, 1, i - 1)>> \o SplitComma(SubSeq(s, i + 1, Len(s)))

RECURSIVE TrimLeft(_)
TrimLeft(s) == IF s # <<>> /\ s[1] = " " THEN TrimLeft(Tail(s)) ELSE s

RECURSIVE TrimRight(_)
TrimRight(s) ==
    IF s # <<>> /\ s[Len(s)] = " " THEN TrimRight(SubSeq(s, 1, Len(s) - 1)) ELSE s

\* strings.TrimSpace
TrimSpace(s) == TrimRight(TrimLeft(s))

\* strings.SplitN(s, ";", n) for n >= 2 on a header part with at most one ";".
SplitNTwo(s, n) ==
    LET semis == {i \in 1..Len(s) : s[i] = ";"} IN
    IF semis = {} THEN <<s>>
    ELSE <<SubSeq(s, 1, Min(semis) - 1), SubSeq(s, Min(semis) + 1, Len(s))>>

\* strings.SplitN(s, ";", n) as consumeHandler calls it, with n = 1: at most
\* one substring, which is the unsplit s.
SplitN(s, n) ==
    IF n = 1 THEN <<s>> ELSE SplitNTwo(s, n)

-----------------------------------------------------------------------------
(* consumeHandler.  st is [consumed, w, log]: the shared contextBase cell,  *)
(* the response sink (every write, in order) and the ghost log.            *)

Ev(ev, ctx, a, n, e, v) == [ev |-> ev, ctx |-> ctx, a |-> a, n |-> n, e |-> e, v |-> v]

Logged(st, ev) == [st EXCEPT !.log = Append(@, ev)]

\* One write to the http.ResponseWriter: status, Content-Type, body, and how.
Write(status, ctype, body, via) ==
    [status |-> status, ctype |-> ctype, body |-> body, via |-> via]

Wrote(st, w) == [st EXCEPT !.w = Append(@, w)]

\* jsonSend
jsonSend(status, body) ==
    IF JSONMarshalFails(body)
    THEN [wrote |-> FALSE, w |-> Write(0, <<>>, NilVal, "none"),
          err |-> PlainErr("json: unsupported value")]
    ELSE [wrote |-> TRUE, w |-> Write(status, JSONType, body, "body"), err |-> NilErr]

RenderFail(name) ==
    [wrote |-> FALSE, w |-> Write(0, <<>>, NilVal, "none"), err |-> PlainErr(name)]

RenderOK(status, ctype, body) ==
    [wrote |-> TRUE, w |-> Write(status, ctype, body, "body"), err |-> NilErr]

\* The loop over acceptParts and the jsonSend after it; renderPart is the
\* switch on one part's contentType.
RECURSIVE renderParts(_, _, _)
renderPart(contentType, parts, status, body) ==
        CASE contentType \in {<<"application/json">>, <<"application/*">>, <<"*/*">>} ->
               jsonSend(status, body)
          [] contentType \in {<<"application/xml">>, <<"text/xml">>} ->
               IF XMLMarshalFails(body) THEN RenderFail("xml: unsupported type")
               ELSE RenderOK(status, contentType, body)
          [] contentType \in {<<"application/x-msgpack">>, <<"application/msgpack">>} ->
               IF MsgpackEncodeFails(body) THEN RenderFail("msgpack: unsupported")
               ELSE RenderOK(status, contentType, body)
          [] contentType \in {<<"text/plain">>, <<"text/*">>} ->
               IF IsStringer(body) THEN RenderOK(status, <<"text/plain">>, body)
               ELSE renderParts(Tail(parts), status, body)
          [] contentType \in {<<"text/html">>, <<"application/html">>} ->
               IF IsHTMLer(body)
               THEN IF HTMLFails(body) THEN RenderFail("HTML() failed")
                    ELSE RenderOK(status, contentType, body)
               ELSE renderParts(Tail(parts), status, body)
          [] contentType \in {<<"application/yaml">>, <<"text/yaml">>} ->
               IF YAMLMarshalFails(body) THEN RenderFail("yaml: unsupported")
               ELSE RenderOK(status, contentType, body)
          [] OTHER -> renderParts(Tail(parts), status, body)

renderParts(parts, status, body) ==
    IF parts = <<>> THEN jsonSend(status, body)
    ELSE renderPart(SplitN(TrimSpace(Head(parts)), 1)[1], parts, status, body)

\* A bug that never looks at Content-Type.
chosenAcceptIgnoresContentType(r) ==
    IF r.accept # <<>> THEN r.accept ELSE JSONType

\* The Accept header consumeHandler negotiates on.
chosenAccept(r) ==
    IF r.accept # <<>> THEN r.accept
    ELSE IF r.ctype # <<>> THEN r.ctype
    ELSE JSONType

\* A bug that ignores the shared consumed flag.
alreadyConsumedNever(st) == FALSE

\* The guard at the top of consumeHandler.
alreadyConsumed(st) == st.consumed

isNoContent(status) == status = 204

\* The end of consumeHandler: what the negotiation did, and the deferred
\* c.consumed = true when err is nil.
consumeNegotiated(st, c, status, body, res) ==
    IF res.wrote
    THEN [st  |-> Logged([Wrote(st, res.w) EXCEPT !.consumed = (res.err = NilErr)],
                         Ev("consume", c, "wrote", status, NilErr, body)),
          err |-> res.err]
    ELSE [st  |-> Logged(st, Ev("consume", c, "failed", status, res.err, body)),
          err |-> res.err]

\* A bug that redirects temporarily whatever Permanent says.
redirectCodeAlwaysTemporary(re) == 307

\* code := http.StatusTemporaryRedirect; if re.Permanent { code = http.StatusPermanentRedirect }
redirectCode(re) == IF re.perm THEN 308 ELSE 307

\* Context.consumeHandler(status, body): returns the new shared state and err.
consumeHandler(st, r, c, status, body) ==
    IF alreadyConsumed(st)
    THEN [st |-> Logged(st, Ev("consume", c, "noop", status, NilErr, body)), err |-> NilErr]
    ELSE IF isNoContent(status)
    THEN [st  |-> Logged([Wrote(st, Write(status, <<>>, NilVal, "nobody"))
                              EXCEPT !.consumed = TRUE],
                         Ev("consume", c, "wrote", status, NilErr, body)),
          err |-> NilErr]
    ELSE IF body.k = "nilredirectptr"
    THEN [st  |-> Logged(st, Ev("consume", c, "failed", status,
                                PlainErr("nil pointer to special redirect struct"), body)),
          err |-> PlainErr("nil pointer to special redirect struct")]
    ELSE IF body.k \in {"redirect", "redirectptr"}
    THEN [st  |-> Logged([Wrote(st, Write(redirectCode(body), <<>>,
                                          body, "redirect"))
                              EXCEPT !.consumed = TRUE],
                         Ev("consume", c, "wrote", status, NilErr, body)),
          err |-> NilErr]
    ELSE consumeNegotiated(st, c, status, body,
                           renderParts(SplitComma(chosenAccept(r)), status, body))

-----------------------------------------------------------------------------
(* handleError.                                                            *)

ErrHandlers == {"none", "readme", "map", "inf"}

\* What the installed ErrorHandler returns for err: README's handler answers
\* a string with the status of the error's class; "map" answers a map the
\* same way; "inf" answers a value JSON cannot hold.
errHandlerResult(eh, err) ==
    LET status == IF IsBadRequest(err) THEN 400
                  ELSE IF IsRouteNotFound(err) THEN 404 ELSE 500
    IN  CASE eh = "readme" ->
               [result |-> StringVal(IF status = 404 THEN <<"not found">>
                                     ELSE <<"something went wrong">>),
                status |-> status]
          [] eh = "map"    -> [result |-> BodyVal("map"), status |-> status]
          [] eh = "inf"    -> [result |-> BodyVal("inf"), status |-> status]

\* The fixed fallback's classification of err.
fallbackOf(err) ==
    IF IsRouteNotFound(err) THEN [status |-> 404, message |-> "Not Found"]
    ELSE IF IsBadRequest(err) THEN [status |-> 400, message |-> "Bad Request"]
    ELSE [status |-> 500, message |-> "Internal Server Error"]

\* The tail of handleError: the fixed fallback, its result ignored.
fallbackSend(st, r, c, err, fb) ==
    consumeHandler(Logged(st, Ev("fallback", c, fb.message, fb.status, err, NilVal)),
                   r, c, fb.status, MessageBody(fb.message)).st

handleErrorFallback(st, r, c, err) == fallbackSend(st, r, c, err, fallbackOf(err))

\* err = c.consumeHandler(status, result); if err == nil { return }
installedSent(res, r, c) ==
    IF res.err = NilErr THEN res.st ELSE handleErrorFallback(res.st, r, c, res.err)

installedSend(st, r, eh, c, err, out) ==
    installedSent(consumeHandler(Logged(st, Ev("errHandler", c, eh, out.status, err, out.result)),
                                 r, c, out.status, out.result),
                  r, c)

\* The middle of handleError: the installed handler, if any.
handleErrorInstalled(st, r, eh, c, err) ==
    IF eh # "none"
    THEN installedSend(st, r, eh, c, err, errHandlerResult(eh, err))
    ELSE handleErrorFallback(st, r, c, err)

\* err = c.consumeHandler(userErr.Status(), userErr.Body()); if err == nil { return }
userFacingSent(res, r, eh, c) ==
    IF res.err = NilErr THEN res.st ELSE handleErrorInstalled(res.st, r, eh, c, res.err)

handleErrorFrom(s0, r, eh, c, err, u) ==
    IF u # 0
    THEN userFacingSent(consumeHandler(s0, r, c, err[u].status, err[u].body), r, eh, c)
    ELSE handleErrorInstalled(s0, r, eh, c, err)

\* Context.handleError(err)
handleError(st, r, eh, c, err) ==
    handleErrorFrom(Logged(st, Ev("resolve", c, "", 0, err, NilVal)), r, eh, c, err,
                    FirstUserFacing(err))

-----------------------------------------------------------------------------
(* Checks and method handlers.                                             *)

\* What the application's Check named name returns when ck is the failing one.
checkResult(name, ck) ==
    IF ck = name THEN PlainErr("not authenticated!") ELSE NilErr

\* Context.runChecks: in registration order, stopping at the first failure,
\* which is handed to handleError.
RECURSIVE runChecks(_, _, _, _, _, _)
\* A bug that goes on to the next check whatever this one returned.
runCheckIgnoresFailure(s1, r, eh, cid, checks, ck, e) ==
    runChecks(s1, r, eh, cid, Tail(checks), ck)

runCheck(s1, r, eh, cid, checks, ck, e) ==
    IF e # NilErr
    THEN [st |-> handleError(s1, r, eh, cid, e), err |-> e]
    ELSE runChecks(s1, r, eh, cid, Tail(checks), ck)

runChecks(st, r, eh, cid, checks, ck) ==
    IF checks = <<>> THEN [st |-> st, err |-> NilErr]
    ELSE runCheck(Logged(st, Ev("check", cid, Head(checks).name, Head(checks).reg,
                                checkResult(Head(checks).name, ck), NilVal)),
                  r, eh, cid, checks, ck, checkResult(Head(checks).name, ck))

\* What a handler function returns: (result, err).
Returns(result) == [result |-> result, err |-> NilErr]

Fails(err) == [result |-> NilVal, err |-> err]

\* The handler function panics with the value v instead of returning.
Panics(v) == [result |-> NilVal, err |-> <<Link("panic", v, 0, NilVal)>>]

IsPanic(err) == err # <<>> /\ err[1].t = "panic"

\* recover() in afterExecute: a panic value that is no error becomes
\* fmt.Errorf("%v", value).
Recovered(p) == PlainErr(p[1].name)

\* README's handler: "Hello, " + name.
Greeting(val) == StringVal(<<"Hello, ">> \o val.s)

\* The outcomes method handler functions of the application may have, given
\* the value their continuation captured.
HandlerOutcomes(fn, val) ==
    IF fn = "greet" THEN { Returns(Greeting(val)) }
    ELSE
    { Returns(StringVal(<<"ok">>)), Returns(BodyVal("struct")), Returns(BodyVal("map")),
      Returns(BodyVal("inf")), Returns(BodyVal("page")), Returns(BodyVal("badpage")),
      Returns(BodyVal("nilptr")), Returns(BodyVal("nilslice")), Returns(BodyVal("nilmap")),
      Returns(RedirectVal("redirect", FALSE)), Returns(RedirectVal("redirectptr", TRUE)),
      Returns(BodyVal("nilredirectptr")),
      Fails(PlainErr("boom")),
      Fails(UserFacing(418, BodyVal("page"))),
      Fails(UserFacing(422, BodyVal("inf"))),
      Fails(UserFacing(204, BodyVal("struct"))),
      Fails(UserFacing(204, RedirectVal("redirect", FALSE))),
      Fails(BadRequest(UserFacing(422, BodyVal("inf")))),
      Fails(UserFacing(0, RedirectVal("redirect", TRUE))),
      Panics("boom") }

\* The decode target at which decoding fails, 0 if none does.
DecodeOutcomes(inputs) == 0..inputs

\* The outcomes of the deferred GET handler, if one is registered.
RunnerOutcomes(runner) ==
    IF runner.set THEN HandlerOutcomes(runner.fn, runner.val) ELSE {Returns(NilVal)}

\* Whether Upgrader.Upgrade succeeds, and what the WebSocket handler returns.
UpgradeOutcomes(ws) == IF ws THEN BOOLEAN ELSE {TRUE}

SocketOutcomes(ws) == IF ws THEN {NilErr, PlainErr("socket closed")} ELSE {NilErr}

\* A bug that answers 200 for nil results too.
statusOfAlways200(result) == 200

\* The status methodHandler picks for a result.
statusOf(result) == IF IsNilKind(result) THEN 204 ELSE 200

\* methodHandler(c, method, handler, inputs) on context cid, whose fields are
\* c; h is the registered handler (its ordinal and its number of decode
\* targets), val what its continuation captured, out what the handler
\* function returns if it is called and decFail the target at which decoding
\* into the targets fails.
methodSent(res, r, eh, cid) ==
    IF res.err # NilErr THEN handleError(res.st, r, eh, cid, res.err) ELSE res.st

methodCalled(s1, r, eh, cid, out) ==
    IF IsPanic(out.err) THEN [s1 EXCEPT !.panic = out.err]
    ELSE IF out.err # NilErr THEN handleError(s1, r, eh, cid, out.err)
    ELSE methodSent(consumeHandler(s1, r, cid, statusOf(out.result), out.result), r, eh, cid)

\* The input: a GET decodes its targets from the query string and reads no
\* body, the other methods read the body; the targets are decoded in order
\* up to the one that fails.
decoded(st, cid, method, h, decFail) ==
    [st EXCEPT !.log =
        Append(@, Ev("input", cid, IF method = "GET" THEN "query" ELSE "body", h.reg,
                     NilErr, NilVal))
          \o [k \in 1..(IF decFail = 0 THEN h.inputs ELSE decFail) |->
                Ev("decode", cid, method, k,
                   IF k = decFail THEN PlainErr("decode failed") ELSE NilErr, NilVal)]]

methodChecked(rc, r, eh, cid, c, method, h, out, decFail) ==
    IF rc.err # NilErr THEN rc.st
    ELSE IF Len(c.pathRemainder) > 0 THEN rc.st
    ELSE IF decFail # 0
    THEN handleError(decoded(rc.st, cid, method, h, decFail),
                     r, eh, cid, BadRequest(PlainErr("decode failed")))
    ELSE methodCalled(Logged(Logged(decoded(rc.st, cid, method, h, decFail),
                                    Ev("handler", cid, method, h.reg, NilErr, h.val)),
                             Ev(IF IsPanic(out.err) THEN "panic" ELSE "returned",
                                cid, method, h.reg, out.err, out.result)),
                      r, eh, cid, out)

methodHandler(st, r, eh, cid, c, method, h, ck, out, decFail) ==
    IF st.consumed \/ r.method # method THEN st
    ELSE methodChecked(runChecks(st, r, eh, cid, c.checks, ck),
                       r, eh, cid, c, method, h, out, decFail)

-----------------------------------------------------------------------------
(* Contexts and afterExecute.                                              *)

NoRunner == [set |-> FALSE, reg |-> 0, inputs |-> 0, fn |-> "", val |-> NilVal]

\* &Context{contextBase: ..., pathRemainder: remainder}.  parent is history
\* only: the Context whose afterExecute made this one, 0 for the root.
NewContext(remainder, parent) ==
    [pathRemainder |-> remainder, handlers |-> <<>>, checks |-> <<>>,
     getRunner |-> NoRunner, ws |-> FALSE, parent |-> parent]

\* strings.ToLower on the header values of the model.
ToLower(s) ==
    CASE s = "Upgrade"   -> "upgrade"
      [] s = "WebSocket" -> "websocket"
      [] OTHER           -> s

\* A bug that compares the header values as they are sent.
upgradeRequestedCaseSensitive(r) ==
    /\ \E i \in 1..Len(r.connection) : r.connection[i] = "upgrade"
    /\ r.upgrade = "websocket"

\* strings.Contains(strings.ToLower(Connection), "upgrade") &&
\* strings.ToLower(Upgrade) == "websocket"
upgradeRequested(r) ==
    /\ \E i \in 1..Len(r.connection) : ToLower(r.connection[i]) = "upgrade"
    /\ ToLower(r.upgrade) = "websocket"

\* The part of afterExecute before its scan of c.handlers: the GET and
\* WebSocket branch and runChecks.  ret says that afterExecute returns
\* without scanning.  hs is the outcome of Upgrader.Upgrade and wsErr what
\* the WebSocket handler returns.
afterChecks(rc) == [st |-> rc.st, ret |-> rc.err # NilErr]

\* After the deferred GET handler: the deferred recover of afterExecute if it
\* panicked, else runChecks.
afterGet(sg, r, eh, cid, c, ck) ==
    IF sg.panic # NilErr
    THEN [st  |-> handleError([sg EXCEPT !.panic = NilErr], r, eh, cid, Recovered(sg.panic)),
          ret |-> TRUE]
    ELSE afterChecks(runChecks(sg, r, eh, cid, c.checks, ck))

\* if c.getRunner != nil { c.getRunner() }
runGet(st, r, eh, cid, c, ck, out, decFail) ==
    IF c.getRunner.set
    THEN methodHandler(st, r, eh, cid, c, "GET", c.getRunner, ck, out, decFail)
    ELSE st

\* A bug that hands the handshake error to handleError too.
afterUpgradeResolvesHandshake(su, r, eh, cid, hs, wsErr) ==
    IF ~hs
    THEN [st |-> handleError(su, r, eh, cid, PlainErr("websocket: bad handshake")), ret |-> TRUE]
    ELSE [st  |-> handleError(Logged(su, Ev("wsHandler", cid, "", 0, wsErr, NilVal)),
                              r, eh, cid, wsErr),
          ret |-> TRUE]

\* The upgrade branch: Upgrade, c.consumed = true, then the WebSocket handler.
afterUpgrade(su, r, eh, cid, hs, wsErr) ==
    IF ~hs THEN [st |-> su, ret |-> TRUE]
    ELSE IF wsErr # NilErr
    THEN [st  |-> handleError(Logged(su, Ev("wsHandler", cid, "", 0, wsErr, NilVal)),
                              r, eh, cid, wsErr),
          ret |-> TRUE]
    ELSE [st |-> Logged(su, Ev("wsHandler", cid, "", 0, wsErr, NilVal)), ret |-> TRUE]

afterExecuteHead(st, r, eh, cid, c, ck, out, decFail, hs, wsErr) ==
    IF r.method = "GET" /\ c.ws /\ Len(c.pathRemainder) = 0 /\ upgradeRequested(r)
    THEN afterUpgrade(Logged([Wrote(st, Write(IF hs THEN 101 ELSE 400, <<>>, NilVal, "upgrade"))
                                 EXCEPT !.consumed = TRUE],
                             Ev("upgrade", cid, IF hs THEN "ok" ELSE "failed", 0, NilErr, NilVal)),
                      r, eh, cid, hs, wsErr)
    ELSE afterGet(IF r.method = "GET" /\ (~c.ws \/ Len(c.pathRemainder) = 0)
                  THEN runGet(st, r, eh, cid, c, ck, out, decFail)
                  ELSE st,
                  r, eh, cid, c, ck)

-----------------------------------------------------------------------------
(* The application: route definitions as statements.  A continuation body   *)
(* is a sequence of statements run on the Context it is given; a matcher    *)
(* statement names the body of its own continuation.                        *)

\* Matchers carry their text and the body of their continuation, AddCheck the
\* name of its check, method handlers their function and the number of their
\* decode targets.
Matcher(kind, text, body) == [op |-> kind, text |-> text, body |-> body, inputs |-> 0, fn |-> ""]

Check(name) == [op |-> "AddCheck", text |-> <<>>, body |-> 0, inputs |-> 0, fn |-> name]

Method(method, fn, inputs) == [op |-> method, text |-> <<>>, body |-> 0, inputs |-> inputs, fn |-> fn]

Socket == [op |-> "WebSocket", text |-> <<>>, body |-> 0, inputs |-> 0, fn |-> ""]

api   == <<"a", "p", "i">>
v1    == <<"v", "1">>
hello == <<"h", "e", "l", "l", "o">>
world == <<"w", "o", "r", "l", "d">>
me    == <<"m", "e">>
n42   == <<"4", "2">>

Slash == <<"/">>

RECURSIVE PathOf(_)
PathOf(segments) ==
    IF segments = <<>> THEN <<>>
    ELSE Slash \o Head(segments) \o PathOf(Tail(segments))

\* README, "Getting started": /api/v1/hello/:name with a GET handler.
ReadmeTree ==
    [name  |-> "readme",
     top   |-> <<Matcher("Static", api, 1)>>,
     nodes |-> << <<Matcher("Static", v1, 2)>>,
                  <<Matcher("Static", hello, 3)>>,
                  <<Matcher("String", <<>>, 4)>>,
                  <<Method("GET", "greet", 0)>> >>]

\* A literal registered after the captures it competes with, on the Router.
LateLiteralTree ==
    [name  |-> "lateLiteral",
     top   |-> <<Matcher("String", <<>>, 1), Matcher("Int", <<>>, 1),
               Matcher("Static", n42, 2), Matcher("Remainder", <<>>, 1)>>,
     nodes |-> << <<Method("POST", "any", 2)>>,
                  <<Method("GET", "any", 0), Method("POST", "any", 0)>> >>]

\* The same competition inside a Context, the literal registered in between.
NestedLiteralTree ==
    [name  |-> "nestedLiteral",
     top   |-> <<Matcher("Static", api, 1)>>,
     nodes |-> << <<Matcher("Int", <<>>, 2), Matcher("Static", n42, 3),
                    Matcher("String", <<>>, 2), Matcher("Static", me, 3)>>,
                  <<Method("POST", "any", 0)>>,
                  <<Method("GET", "any", 1)>> >>]

\* README, "Custom checks", with a WebSocket and method handlers beside it.
CheckedTree ==
    [name  |-> "checked",
     top   |-> <<Matcher("Static", api, 1)>>,
     nodes |-> << <<Check("c1"), Check("c2"),
                    Socket, Method("GET", "any", 0),
                    Method("POST", "any", 1), Matcher("Static", me, 2)>>,
                  <<Method("GET", "any", 0)>> >>]

\* Two top-level matchers that both match the first segment.
SiblingTree ==
    [name  |-> "sibling",
     top   |-> <<Matcher("Static", api, 1), Matcher("String", <<>>, 2)>>,
     nodes |-> << <<Matcher("String", <<>>, 3)>>,
                  <<Matcher("Static", me, 4)>>,
                  <<Method("POST", "any", 0)>>,
                  <<Method("GET", "any", 0)>> >>]

Scenarios ==
    { [tree |-> ReadmeTree,
       paths |-> {PathOf(<<api, v1, hello, world>>), PathOf(<<api, v1, hello>>) \o Slash,
                  PathOf(<<api, v1, hello>>), PathOf(<<api, v1, hello, <<"%", "4", "1">> >>),
                  PathOf(<<api, v1, hello, <<"%", "z">> >>)}],
      [tree |-> LateLiteralTree,
       paths |-> {PathOf(<<n42>>), PathOf(<<me>>), Slash, PathOf(<<n42, me>>)}],
      [tree |-> NestedLiteralTree,
       paths |-> {PathOf(<<api, n42>>), PathOf(<<api, me>>), PathOf(<<api>>)}],
      [tree |-> CheckedTree,
       paths |-> {PathOf(<<api>>), PathOf(<<api, me>>), PathOf(<<me>>)}],
      [tree |-> SiblingTree,
       paths |-> {PathOf(<<api, me>>), PathOf(<<me, me>>)}] }

Methods == {"GET", "POST", "DELETE"}

\* Accept and Content-Type header values.
AcceptXMLThenJSON == <<"application/xml", ",", " ", "application/json">>

Accepts ==
    { <<>>, JSONType, AcceptXMLThenJSON, <<"text/plain">>,
      <<"text/html", ",", "application/xml">>,
      <<"application/xml", ";", "q=0.9", ",", "text/*">>,
      <<"image/png">> }

ContentTypes == { <<>>, <<"application/xml">>, <<"application/yaml">> }

HasOp(t, op) ==
    \/ \E i \in 1..Len(t.top) : t.top[i].op = op
    \/ \E n \in 1..Len(t.nodes) : \E i \in 1..Len(t.nodes[n]) : t.nodes[n][i].op = op

Connections == { <<>>, <<"keep-alive", ",", " ", "Upgrade">> }

Upgrades == { "", "WebSocket" }

\* The requests sent to an application: Content-Type varies where Accept is
\* absent or text/plain, the upgrade headers where the application has a
\* WebSocket.
Requests(t, paths) ==
    { r \in [method : Methods, path : paths, accept : Accepts, ctype : ContentTypes,
             connection : Connections, upgrade : Upgrades] :
        /\ r.accept \notin {<<>>, <<"text/plain">>} => r.ctype = <<>>
        /\ ~HasOp(t, "WebSocket") => (r.connection = <<>> /\ r.upgrade = "") }

CheckNames(t) == IF HasOp(t, "AddCheck") THEN {"none", "c1", "c2"} ELSE {"none"}

-----------------------------------------------------------------------------
(* The state machine.                                                      *)

Frame(k, ctx, node, pc, val, st) ==
    [k |-> k, ctx |-> ctx, node |-> node, pc |-> pc, val |-> val, st |-> st]

Top == stack[Len(stack)]

Pop == SubSeq(stack, 1, Len(stack) - 1)

ReplaceTop(f) == [stack EXCEPT ![Len(stack)] = f]

\* The shared state the operators above thread through; panic is the value
\* of a panic that is unwinding, NilErr if none is.
Shared == [consumed |-> base.consumed, w |-> base.w, log |-> log, panic |-> NilErr]

Commit(st) ==
    /\ base' = [consumed |-> st.consumed, w |-> st.w]
    /\ log' = st.log

\* The headers known_proxies.txt names.
ForwardingHeaders == {"CF-Connecting-IP", "Fastly-Client-IP"}

NotCalled == [called |-> FALSE, ip |-> <<>>]

Config == <<goBuild, tree, errHandler, req, ckOut, remoteAddr, header, disableAutoProxy,
            remoteIP>>

Init ==
    /\ goBuild \in GoBuilds
    /\ errHandler \in ErrHandlers
    /\ \E sc \in Scenarios :
          /\ tree = sc.tree
          /\ req \in Requests(sc.tree, sc.paths)
          /\ ckOut \in CheckNames(sc.tree)
    /\ rhandlers = <<>>
    /\ nreg = 0
    /\ phase = "setup"
    /\ setupPc = 1
    /\ base = [consumed |-> FALSE, w |-> <<>>]
    /\ ctxs = <<>>
    /\ stack = <<>>
    /\ log = <<>>
    /\ remoteAddr = [host |-> "203.0.113.9", port |-> "54321"]
    /\ header = [h \in ForwardingHeaders |-> ""]
    /\ disableAutoProxy = FALSE
    /\ remoteIP = NotCalled

\* Static / Int / Uint / Float / String / Remainder called on the Router while
\* the application sets its routes up: Router.addHandler.
RouterRegister ==
    /\ phase = "setup"
    /\ setupPc <= Len(tree.top)
    /\ LET s == tree.top[setupPc] IN
       rhandlers' = addHandler(rhandlers, MkHandler(s.op, s.text, s.body, nreg + 1), goBuild)
    /\ nreg' = nreg + 1
    /\ setupPc' = setupPc + 1
    /\ UNCHANGED <<Config, phase, base, ctxs, stack, log>>

\* Router.ServeHTTP, up to its loop: the root Context.
ServeHTTPStart ==
    /\ phase = "setup"
    /\ setupPc > Len(tree.top)
    /\ phase' = "serving"
    /\ ctxs' = <<NewContext(req.path, 0)>>
    /\ stack' = <<Frame("serve", 1, 0, 1, NilVal, "run")>>
    /\ UNCHANGED <<Config, rhandlers, nreg, setupPc, base, log>>

InServe(st) == phase = "serving" /\ stack # <<>> /\ Top.k = "serve" /\ Top.st = st

\* The loop of ServeHTTP on a handler whose check fails.
ServeHTTPSkip ==
    /\ InServe("run")
    /\ Top.pc <= Len(rhandlers)
    /\ ~HandlerCheck(rhandlers[Top.pc], req.path).ok
    /\ stack' = ReplaceTop([Top EXCEPT !.pc = @ + 1])
    /\ UNCHANGED <<Config, rhandlers, nreg, phase, setupPc, base, ctxs, log>>

\* The loop of ServeHTTP on a handler whose check succeeds: h.execute(ctx, val)
\* on the root Context itself.
ServeHTTPMatch ==
    /\ InServe("run")
    /\ Top.pc <= Len(rhandlers)
    /\ LET h == rhandlers[Top.pc]
           m == HandlerCheck(h, req.path)
       IN  /\ m.ok
           /\ ctxs' = [ctxs EXCEPT ![1].pathRemainder = m.remainder]
           /\ stack' = Append(ReplaceTop([Top EXCEPT !.pc = @ + 1, !.st = "ret"]),
                              Frame("hn", 1, h.body, 1, m.val, "run"))
           /\ log' = Append(log, Ev("cont", 1, h.kind, h.reg, NilErr, m.val))
    /\ UNCHANGED <<Config, rhandlers, nreg, phase, setupPc, base>>

\* Back in ServeHTTP after h.execute: return if the Context is consumed.
ServeHTTPReturned ==
    /\ InServe("ret")
    /\ IF base.consumed
       THEN phase' = "done" /\ stack' = <<>>
       ELSE phase' = phase /\ stack' = ReplaceTop([Top EXCEPT !.st = "run"])
    /\ UNCHANGED <<Config, rhandlers, nreg, setupPc, base, ctxs, log>>

\* The end of ServeHTTP: ctx.handleError(RouteNotFound).
ServeHTTPNotFound ==
    /\ InServe("run")
    /\ Top.pc > Len(rhandlers)
    /\ ctxs' = [ctxs EXCEPT ![1].pathRemainder = req.path]
    /\ Commit(handleError(Shared, req, errHandler, 1, RouteNotFound))
    /\ phase' = "done"
    /\ stack' = <<>>
    /\ UNCHANGED <<Config, rhandlers, nreg, setupPc>>

InBody == phase = "serving" /\ stack # <<>> /\ Top.k = "hn"

Body == tree.nodes[Top.node]

AtStmt(ops) == InBody /\ Top.pc <= Len(Body) /\ Body[Top.pc].op \in ops

NextStmt == stack' = ReplaceTop([Top EXCEPT !.pc = @ + 1])

\* A matcher function called on the Context inside a continuation:
\* Context.addHandler, which does nothing once the request is consumed.
ContextRegister ==
    /\ AtStmt(MatcherKinds)
    /\ LET s == Body[Top.pc] IN
       ctxs' = IF base.consumed THEN ctxs
               ELSE [ctxs EXCEPT ![Top.ctx].handlers =
                        addHandler(@, MkHandler(s.op, s.text, s.body, nreg + 1), goBuild)]
    /\ nreg' = nreg + 1
    /\ NextStmt
    /\ UNCHANGED <<Config, rhandlers, phase, setupPc, base, log>>

\* AddCheck(ctx, check)
AddCheck ==
    /\ AtStmt({"AddCheck"})
    /\ ctxs' = [ctxs EXCEPT ![Top.ctx].checks =
                   Append(@, [name |-> Body[Top.pc].fn, reg |-> nreg + 1])]
    /\ log' = Append(log, Ev("addcheck", Top.ctx, Body[Top.pc].fn, nreg + 1, NilErr, NilVal))
    /\ nreg' = nreg + 1
    /\ NextStmt
    /\ UNCHANGED <<Config, rhandlers, phase, setupPc, base>>

\* GET(ctx, handler, inputs...): the handler is deferred as c.getRunner.
GET ==
    /\ AtStmt({"GET"})
    /\ ctxs' = [ctxs EXCEPT ![Top.ctx].getRunner =
                   [set |-> TRUE, reg |-> nreg + 1, inputs |-> Body[Top.pc].inputs,
                    fn |-> Body[Top.pc].fn, val |-> Top.val]]
    /\ log' = Append(log, Ev("register", Top.ctx, "GET", nreg + 1, NilErr,
                             StringVal(ctxs[Top.ctx].pathRemainder)))
    /\ nreg' = nreg + 1
    /\ NextStmt
    /\ UNCHANGED <<Config, rhandlers, phase, setupPc, base>>

\* WebSocket(ctx, upgrader, handler)
WebSocket ==
    /\ AtStmt({"WebSocket"})
    /\ ctxs' = [ctxs EXCEPT ![Top.ctx].ws = TRUE]
    /\ NextStmt
    /\ UNCHANGED <<Config, rhandlers, nreg, phase, setupPc, base, log>>

\* POST / PUT / DELETE / PATCH / OPTIONS (ctx, handler, inputs...): methodHandler
\* runs at once.
\* methodHandler has returned into the continuation, or its panic unwinds
\* the continuation: execute has no recover, so the panic reaches the
\* afterExecute that called execute, whose deferred recover hands it to
\* handleError of its own Context, or, from a top-level matcher, it leaves
\* ServeHTTP.
Unwind(res) ==
    IF res.panic = NilErr
    THEN Commit(res) /\ NextStmt /\ phase' = phase
    ELSE IF Pop[Len(Pop)].k = "after"
    THEN /\ Commit(handleError([res EXCEPT !.panic = NilErr], req, errHandler,
                               Pop[Len(Pop)].ctx, Recovered(res.panic)))
         /\ stack' = SubSeq(stack, 1, Len(stack) - 2)
         /\ phase' = phase
    ELSE Commit(res) /\ stack' = <<>> /\ phase' = "panicked"

MethodCall ==
    /\ AtStmt({"POST", "PUT", "DELETE", "PATCH", "OPTIONS"})
    /\ LET s == Body[Top.pc]
           h == [set |-> TRUE, reg |-> nreg + 1, inputs |-> s.inputs, fn |-> s.fn,
                 val |-> Top.val]
       IN  \E out \in HandlerOutcomes(s.fn, Top.val), decFail \in DecodeOutcomes(s.inputs) :
              Unwind(methodHandler(Logged(Shared, Ev("register", Top.ctx, s.op, nreg + 1, NilErr,
                                                     StringVal(ctxs[Top.ctx].pathRemainder))),
                                   req, errHandler, Top.ctx, ctxs[Top.ctx],
                                   s.op, h, ckOut, out, decFail))
    /\ nreg' = nreg + 1
    /\ UNCHANGED <<Config, rhandlers, setupPc, ctxs>>

\* The continuation returns; execute goes on with ctx.afterExecute().
ContinuationReturn ==
    /\ InBody
    /\ Top.pc > Len(Body)
    /\ stack' = ReplaceTop(Frame("after", Top.ctx, Top.node, 1, Top.val, "begin"))
    /\ UNCHANGED <<Config, rhandlers, nreg, phase, setupPc, base, ctxs, log>>

\* History: afterExecute goes past its consumed guard on Context cid, with
\* what the Context holds then.
Entered(cid, c) ==
    Ev("afterExecute", cid, IF c.ws THEN "ws" ELSE "", c.getRunner.reg, NilErr,
       StringVal(c.pathRemainder))

InAfter(st) == phase = "serving" /\ stack # <<>> /\ Top.k = "after" /\ Top.st = st

\* afterExecute up to its scan: the consumed guard, the GET / WebSocket
\* branch and runChecks.
AfterExecuteHead ==
    /\ InAfter("begin")
    /\ IF base.consumed
       THEN stack' = Pop /\ UNCHANGED <<base, log>>
       ELSE \E out \in RunnerOutcomes(ctxs[Top.ctx].getRunner),
               decFail \in DecodeOutcomes(ctxs[Top.ctx].getRunner.inputs),
               hs \in UpgradeOutcomes(ctxs[Top.ctx].ws),
               wsErr \in SocketOutcomes(ctxs[Top.ctx].ws) :
               LET res == afterExecuteHead(Logged(Shared, Entered(Top.ctx, ctxs[Top.ctx])),
                                           req, errHandler, Top.ctx, ctxs[Top.ctx],
                                           ckOut, out, decFail, hs, wsErr)
               IN  /\ Commit(res.st)
                   /\ stack' = IF res.ret THEN Pop
                               ELSE ReplaceTop([Top EXCEPT !.st = "run"])
    /\ UNCHANGED <<Config, rhandlers, nreg, phase, setupPc, ctxs>>

\* The scan of afterExecute on a handler whose check fails.
AfterExecuteSkip ==
    /\ InAfter("run")
    /\ Top.pc <= Len(ctxs[Top.ctx].handlers)
    /\ ~HandlerCheck(ctxs[Top.ctx].handlers[Top.pc], ctxs[Top.ctx].pathRemainder).ok
    /\ stack' = ReplaceTop([Top EXCEPT !.pc = @ + 1])
    /\ UNCHANGED <<Config, rhandlers, nreg, phase, setupPc, base, ctxs, log>>

\* The scan of afterExecute on a handler whose check succeeds: a child
\* Context over the remainder, and h.execute on it.
AfterExecuteMatch ==
    /\ InAfter("run")
    /\ Top.pc <= Len(ctxs[Top.ctx].handlers)
    /\ LET h == ctxs[Top.ctx].handlers[Top.pc]
           m == HandlerCheck(h, ctxs[Top.ctx].pathRemainder)
       IN  /\ m.ok
           /\ ctxs' = Append(ctxs, NewContext(m.remainder, Top.ctx))
           /\ stack' = Append(ReplaceTop([Top EXCEPT !.pc = @ + 1, !.st = "ret"]),
                              Frame("hn", Len(ctxs) + 1, h.body, 1, m.val, "run"))
           /\ log' = Append(log, Ev("cont", Len(ctxs) + 1, h.kind, h.reg, NilErr, m.val))
    /\ UNCHANGED <<Config, rhandlers, nreg, phase, setupPc, base>>

\* A scan that goes on with the next matcher whatever the child did.
AfterExecuteReturnedGoesOn ==
    /\ InAfter("ret")
    /\ stack' = ReplaceTop([Top EXCEPT !.st = "run"])
    /\ UNCHANGED <<Config, rhandlers, nreg, phase, setupPc, base, ctxs, log>>

\* Back in afterExecute after h.execute: return if the child is consumed.
AfterExecuteReturned ==
    /\ InAfter("ret")
    /\ stack' = IF base.consumed THEN Pop ELSE ReplaceTop([Top EXCEPT !.st = "run"])
    /\ UNCHANGED <<Config, rhandlers, nreg, phase, setupPc, base, ctxs, log>>

\* The scan of afterExecute ends.
AfterExecuteEnd ==
    /\ InAfter("run")
    /\ Top.pc > Len(ctxs[Top.ctx].handlers)
    /\ stack' = Pop
    /\ UNCHANGED <<Config, rhandlers, nreg, phase, setupPc, base, ctxs, log>>

Next ==
    \/ RouterRegister
    \/ ServeHTTPStart
    \/ ServeHTTPSkip
    \/ ServeHTTPMatch
    \/ ServeHTTPReturned
    \/ ServeHTTPNotFound
    \/ ContextRegister
    \/ AddCheck
    \/ GET
    \/ WebSocket
    \/ MethodCall
    \/ ContinuationReturn
    \/ AfterExecuteHead
    \/ AfterExecuteSkip
    \/ AfterExecuteMatch
    \/ AfterExecuteReturned
    \/ AfterExecuteEnd

Spec == Init /\ [][Next]_vars

-----------------------------------------------------------------------------
(* Registration alone: any sequence of matcher registrations on a Router.  *)
(* The lists stay within the 12 elements sortSort covers.                  *)

InitReg ==
    /\ goBuild \in GoBuilds
    /\ tree = ReadmeTree
    /\ errHandler = "none"
    /\ req = [method |-> "GET", path |-> Slash, accept |-> <<>>, ctype |-> <<>>,
              connection |-> <<>>, upgrade |-> ""]
    /\ ckOut = "none"
    /\ rhandlers = <<>>
    /\ nreg = 0
    /\ phase = "registering"
    /\ setupPc = 1
    /\ base = [consumed |-> FALSE, w |-> <<>>]
    /\ ctxs = <<>>
    /\ stack = <<>>
    /\ log = <<>>
    /\ remoteAddr = [host |-> "203.0.113.9", port |-> "54321"]
    /\ header = [h \in ForwardingHeaders |-> ""]
    /\ disableAutoProxy = FALSE
    /\ remoteIP = NotCalled

\* Static / Int / String / Remainder (router, ...)
Register ==
    /\ phase = "registering"
    /\ Len(rhandlers) < MaxReg
    /\ \E kind \in MatcherKinds :
          rhandlers' = addHandler(rhandlers, MkHandler(kind, <<>>, 0, nreg + 1), goBuild)
    /\ nreg' = nreg + 1
    /\ UNCHANGED <<Config, phase, setupPc, base, ctxs, stack, log>>

NextReg == Register

RegSpec == InitReg /\ [][NextReg]_vars

-----------------------------------------------------------------------------
(* The client address: the table of known proxies and Context.RemoteIP.    *)
(* A net.IP is the sequence of its groups, four octets or eight 16-bit     *)
(* groups; nil is the empty sequence.                                      *)

\* net.ParseIP on the address texts of the model: a text with a zone, or one
\* that is no address, gives nil.
ParseIP(s) ==
    CASE s = "173.245.48.1"   -> <<173, 245, 48, 1>>
      [] s = "173.245.63.255" -> <<173, 245, 63, 255>>
      [] s = "173.245.64.1"   -> <<173, 245, 64, 1>>
      [] s = "23.235.32.7"    -> <<23, 235, 32, 7>>
      [] s = "203.0.113.9"    -> <<203, 0, 113, 9>>
      [] s = "198.51.100.7"   -> <<198, 51, 100, 7>>
      [] s = "2606:4700::1"   -> <<9734, 18176, 0, 0, 0, 0, 0, 1>>
      [] s = "2a06:98c7::1"   -> <<10758, 39111, 0, 0, 0, 0, 0, 1>>
      [] s = "2a04:4e41::1"   -> <<10756, 20033, 0, 0, 0, 0, 0, 1>>
      [] s = "2001:db8::1"    -> <<8193, 3512, 0, 0, 0, 0, 0, 1>>
      [] OTHER                -> <<>>

\* known_proxies.txt, line by line, as init parses it.
knownProxies ==
    << 
       [cidr |-> [ip |-> <<173, 245, 48, 0>>, bits |-> 20], header |-> "CF-Connecting-IP"],
       [cidr |-> [ip |-> <<103, 21, 244, 0>>, bits |-> 22], header |-> "CF-Connecting-IP"],
       [cidr |-> [ip |-> <<103, 22, 200, 0>>, bits |-> 22], header |-> "CF-Connecting-IP"],
       [cidr |-> [ip |-> <<103, 31, 4, 0>>, bits |-> 22], header |-> "CF-Connecting-IP"],
       [cidr |-> [ip |-> <<141, 101, 64, 0>>, bits |-> 18], header |-> "CF-Connecting-IP"],
       [cidr |-> [ip |-> <<108, 162, 192, 0>>, bits |-> 18], header |-> "CF-Connecting-IP"],
       [cidr |-> [ip |-> <<190, 93, 240, 0>>, bits |-> 20], header |-> "CF-Connecting-IP"],
       [cidr |-> [ip |-> <<188, 114, 96, 0>>, bits |-> 20], header |-> "CF-Connecting-IP"],
       [cidr |-> [ip |-> <<197, 234, 240, 0>>, bits |-> 22], header |-> "CF-Connecting-IP"],
       [cidr |-> [ip |-> <<198, 41, 128, 0>>, bits |-> 17], header |-> "CF-Connecting-IP"],
       [cidr |-> [ip |-> <<162, 158, 0, 0>>, bits |-> 15], header |-> "CF-Connecting-IP"],
       [cidr |-> [ip |-> <<104, 16, 0, 0>>, bits |-> 13], header |-> "CF-Connecting-IP"],
       [cidr |-> [ip |-> <<104, 24, 0, 0>>, bits |-> 14], header |-> "CF-Connecting-IP"],
       [cidr |-> [ip |-> <<172, 64, 0, 0>>, bits |-> 13], header |-> "CF-Connecting-IP"],
       [cidr |-> [ip |-> <<131, 0, 72, 0>>, bits |-> 22], header |-> "CF-Connecting-IP"],
       [cidr |-> [ip |-> <<9216, 51968, 0, 0, 0, 0, 0, 0>>, bits |-> 32], header |-> "CF-Connecting-IP"],
       [cidr |-> [ip |-> <<9734, 18176, 0, 0, 0, 0, 0, 0>>, bits |-> 32], header |-> "CF-Connecting-IP"],
       [cidr |-> [ip |-> <<10243, 63488, 0, 0, 0, 0, 0, 0>>, bits |-> 32], header |-> "CF-Connecting-IP"],
       [cidr |-> [ip |-> <<9221, 46336, 0, 0, 0, 0, 0, 0>>, bits |-> 32], header |-> "CF-Connecting-IP"],
       [cidr |-> [ip |-> <<9221, 33024, 0, 0, 0, 0, 0, 0>>, bits |-> 32], header |-> "CF-Connecting-IP"],
       [cidr |-> [ip |-> <<10758, 39104, 0, 0, 0, 0, 0, 0>>, bits |-> 29], header |-> "CF-Connecting-IP"],
       [cidr |-> [ip |-> <<11279, 62024, 0, 0, 0, 0, 0, 0>>, bits |-> 32], header |-> "CF-Connecting-IP"],
       [cidr |-> [ip |-> <<23, 235, 32, 0>>, bits |-> 20], header |-> "Fastly-Client-IP"],
       [cidr |-> [ip |-> <<43, 249, 72, 0>>, bits |-> 22], header |-> "Fastly-Client-IP"],
       [cidr |-> [ip |-> <<103, 244, 50, 0>>, bits |-> 24], header |-> "Fastly-Client-IP"],
       [cidr |-> [ip |-> <<103, 245, 222, 0>>, bits |-> 23], header |-> "Fastly-Client-IP"],
       [cidr |-> [ip |-> <<103, 245, 224, 0>>, bits |-> 24], header |-> "Fastly-Client-IP"],
       [cidr |-> [ip |-> <<104, 156, 80, 0>>, bits |-> 20], header |-> "Fastly-Client-IP"],
       [cidr |-> [ip |-> <<140, 248, 64, 0>>, bits |-> 18], header |-> "Fastly-Client-IP"],
       [cidr |-> [ip |-> <<140, 248, 128, 0>>, bits |-> 17], header |-> "Fastly-Client-IP"],
       [cidr |-> [ip |-> <<146, 75, 0, 0>>, bits |-> 17], header |-> "Fastly-Client-IP"],
       [cidr |-> [ip |-> <<151, 101, 0, 0>>, bits |-> 16], header |-> "Fastly-Client-IP"],
       [cidr |-> [ip |-> <<157, 52, 64, 0>>, bits |-> 18], header |-> "Fastly-Client-IP"],
       [cidr |-> [ip |-> <<167, 82, 0, 0>>, bits |-> 17], header |-> "Fastly-Client-IP"],
       [cidr |-> [ip |-> <<167, 82, 128, 0>>, bits |-> 20], header |-> "Fastly-Client-IP"],
       [cidr |-> [ip |-> <<167, 82, 160, 0>>, bits |-> 20], header |-> "Fastly-Client-IP"],
       [cidr |-> [ip |-> <<167, 82, 224, 0>>, bits |-> 20], header |-> "Fastly-Client-IP"],
       [cidr |-> [ip |-> <<172, 111, 64, 0>>, bits |-> 18], header |-> "Fastly-Client-IP"],
       [cidr |-> [ip |-> <<185, 31, 16, 0>>, bits |-> 22], header |-> "Fastly-Client-IP"],
       [cidr |-> [ip |-> <<199, 27, 72, 0>>, bits |-> 21], header |-> "Fastly-Client-IP"],
       [cidr |-> [ip |-> <<199, 232, 0, 0>>, bits |-> 16], header |-> "Fastly-Client-IP"],
       [cidr |-> [ip |-> <<10756, 20032, 0, 0, 0, 0, 0, 0>>, bits |-> 32], header |-> "Fastly-Client-IP"],
       [cidr |-> [ip |-> <<10756, 20034, 0, 0, 0, 0, 0, 0>>, bits |-> 32], header |-> "Fastly-Client-IP"] >>

\* IP.To4() != nil
IsV4(x) == Len(x) = 4

\* init: the table split by address family, in file order.
v4Items == SelectSeq(knownProxies, LAMBDA item : IsV4(item.cidr.ip))

v6Items == SelectSeq(knownProxies, LAMBDA item : ~IsV4(item.cidr.ip))

\* IPNet.Contains: the first n.bits bits of x are those of the network.
Contains(n, x) ==
    /\ Len(x) = Len(n.ip)
    /\ LET w == IF IsV4(x) THEN 8 ELSE 16 IN
       \A i \in 1..Len(x) :
          LET over == n.bits - (i - 1) * w
              keep == IF over < 0 THEN 0 ELSE IF over > w THEN w ELSE over
          IN  x[i] \div 2^(w - keep) = n.ip[i] \div 2^(w - keep)

\* The header of the first item of items that contains x, or "".
firstContaining(items, x) ==
    LET hits == {i \in 1..Len(items) : Contains(items[i].cidr, x)} IN
    IF hits = {} THEN "" ELSE items[Min(hits)].header

\* A bug that takes every peer for a Cloudflare proxy.
evalIpTrustsEveryPeer(x) == "CF-Connecting-IP"

evalIp(x) ==
    IF ~IsV4(x) THEN firstContaining(v6Items, x) ELSE firstContaining(v4Items, x)

\* Context.RemoteIP, given Request.RemoteAddr, the request's headers and
\* Router.disableAutoProxy.  net.SplitHostPort fails on an address without
\* a port.
RemoteIP(addr, hdr, disabled) ==
    IF addr.port = "" THEN <<>>
    ELSE IF ~disabled /\ evalIp(ParseIP(addr.host)) # ""
            /\ hdr[evalIp(ParseIP(addr.host))] # ""
    THEN ParseIP(hdr[evalIp(ParseIP(addr.host))])
    ELSE ParseIP(addr.host)

\* The transport addresses of the model: peers inside and outside the ranges
\* of both proxies, at their edges, of both families, a link-local peer with
\* its zone, and a listener whose peers have no host:port address.
RemoteAddrs ==
    { [host |-> h, port |-> "54321"] :
        h \in {"173.245.48.1", "173.245.63.255", "173.245.64.1", "23.235.32.7",
               "203.0.113.9", "2606:4700::1", "2a06:98c7::1", "2a04:4e41::1",
               "2001:db8::1", "fe80::1%eth0"} }
    \cup { [host |-> "@", port |-> ""] }

InitIP ==
    /\ goBuild = "go1.18"
    /\ tree = ReadmeTree
    /\ errHandler = "none"
    /\ req = [method |-> "GET", path |-> Slash, accept |-> <<>>, ctype |-> <<>>,
              connection |-> <<>>, upgrade |-> ""]
    /\ ckOut = "none"
    /\ rhandlers = <<>>
    /\ nreg = 0
    /\ phase = "remoteIP"
    /\ setupPc = 1
    /\ base = [consumed |-> FALSE, w |-> <<>>]
    /\ ctxs = <<>>
    /\ stack = <<>>
    /\ log = <<>>
    /\ remoteAddr \in RemoteAddrs
    /\ header \in [ForwardingHeaders -> {"", "198.51.100.7", "unknown"}]
    /\ disableAutoProxy = FALSE
    /\ remoteIP = NotCalled

\* Router.DisableAutoProxy(), while the application configures its Router.
DisableAutoProxy ==
    /\ phase = "remoteIP"
    /\ ~remoteIP.called
    /\ ~disableAutoProxy
    /\ disableAutoProxy' = TRUE
    /\ UNCHANGED <<goBuild, tree, errHandler, rhandlers, nreg, req, ckOut, phase, setupPc,
                   base, ctxs, stack, log, remoteAddr, header, remoteIP>>

\* ctx.RemoteIP() in a handler.
RemoteIPCall ==
    /\ phase = "remoteIP"
    /\ ~remoteIP.called
    /\ remoteIP' = [called |-> TRUE, ip |-> RemoteIP(remoteAddr, header, disableAutoProxy)]
    /\ UNCHANGED <<goBuild, tree, errHandler, rhandlers, nreg, req, ckOut, phase, setupPc,
                   base, ctxs, stack, log, remoteAddr, header, disableAutoProxy>>

NextIP == DisableAutoProxy \/ RemoteIPCall

IPSpec == InitIP /\ [][NextIP]_vars

-----------------------------------------------------------------------------
(* Properties.  The log holds, in order, what the request has done so far: *)
(* "cont" a matcher's continuation is invoked, "check" a check is          *)
(* evaluated, "handler" / "returned" a method handler is invoked and what  *)
(* it returned ("panic" if it panicked), "consume" a consumeHandler call   *)
(* and whether it wrote, "resolve" handleError is entered, "errHandler"    *)
(* the installed handler is called, "fallback" the fixed fallback is       *)
(* reached, "upgrade" a WebSocket handshake, "wsHandler" the WebSocket     *)
(* handler has run, "afterExecute" afterExecute is entered, "addcheck" a check is registered, "register" a method  *)
(* handler is registered by a continuation (with the remainder its match   *)
(* left), "input" a method handler takes its input from the query string   *)
(* or reads the body, "decode" the input is decoded into a target.         *)

Done == phase = "done"

LogIdx == 1..Len(log)

\* A log entry that put a response on the wire.
IsWrite(e) == (e.ev = "consume" /\ e.a = "wrote") \/ e.ev = "upgrade"

\* C1: by the time ServeHTTP returns at least one response write has occurred,
\* and the fixed fallback of handleError always succeeds in writing (its
\* consumeHandler call never fails).
C1_ResponseWritten ==
    /\ Done => Len(base.w) >= 1
    /\ \A i \in LogIdx : log[i].ev = "fallback" => log[i + 1].a # "failed"

\* C2: within one request at most one consumeHandler call (or upgrade) writes
\* to the response; once a write has happened the shared consumed flag is set
\* and every later consumeHandler call, from whatever context, writes nothing
\* and returns nil.
C2_AtMostOneWrite ==
    /\ Len(base.w) <= 1
    /\ base.w # <<>> => base.consumed
    /\ \A i \in LogIdx : \A j \in LogIdx :
          (i < j /\ IsWrite(log[i]) /\ log[j].ev = "consume")
             => (log[j].a = "noop" /\ log[j].e = NilErr)

\* A consumeHandler call after the response was written, which did nothing.
C2_Witness ==
    /\ Len(base.w) = 1
    /\ \E i \in LogIdx : \E j \in LogIdx :
          i < j /\ IsWrite(log[i]) /\ log[j].ev = "consume" /\ log[j].a = "noop"

-----------------------------------------------------------------------------
(* Scans: a "serve" frame scans the Router's list against the request      *)
(* path, an "after" frame the list of its Context against its remainder;   *)
(* the handlers before the frame's pc have been tried.                     *)

ScanFrames == {n \in 1..Len(stack) : stack[n].k \in {"serve", "after"}}

ScanList(f) == IF f.k = "serve" THEN rhandlers ELSE ctxs[f.ctx].handlers

ScanPath(f) == IF f.k = "serve" THEN req.path ELSE ctxs[f.ctx].pathRemainder

TypedKinds == {"Int", "String"}

\* The continuation of the matcher with ordinal a was invoked before that of
\* the matcher with ordinal b.
ContBefore(a, b) ==
    \E i \in LogIdx : \E j \in LogIdx :
        /\ i < j
        /\ log[i].ev = "cont" /\ log[i].n = a
        /\ log[j].ev = "cont" /\ log[j].n = b

\* In the scan of frame f the typed matcher at index i has had its
\* continuation invoked while the literal at index j names the next segment.
LiteralCompetes(f, i, j) ==
    /\ i < f.pc
    /\ ScanList(f)[i].kind \in TypedKinds
    /\ HandlerCheck(ScanList(f)[i], ScanPath(f)).ok
    /\ ScanList(f)[j].kind = "Static"
    /\ consumeUntilSlash(ScanPath(f)).contents = ScanList(f)[j].text

LiteralFirstIn(f) ==
    \A i \in 1..Len(ScanList(f)) : \A j \in 1..Len(ScanList(f)) :
        LiteralCompetes(f, i, j)
           => (j < i /\ ContBefore(ScanList(f)[j].reg, ScanList(f)[i].reg))

\* C3: in every scan of a Router's or Context's matcher list, a literal whose
\* text equals the next path segment has its continuation tried before the
\* continuation of any Int or String matcher of that list, whatever the
\* order in which they were registered.
C3_LiteralFirst == \A n \in ScanFrames : LiteralFirstIn(stack[n])

\* A typed matcher's continuation tried after that of a literal registered
\* later than it.
C3_Witness ==
    \E n \in ScanFrames :
       \E i \in 1..Len(ScanList(stack[n])) : \E j \in 1..Len(ScanList(stack[n])) :
          /\ LiteralCompetes(stack[n], i, j)
          /\ ScanList(stack[n])[j].reg > ScanList(stack[n])[i].reg

\* C4: after any sequence of addHandler calls the list is sorted by descending
\* priority, and matchers of equal priority are in registration order.
C4_SortedInRegistrationOrder ==
    \A i \in 1..Len(rhandlers) : \A j \in 1..Len(rhandlers) :
        i < j => /\ rhandlers[i].priority >= rhandlers[j].priority
                 /\ rhandlers[i].priority = rhandlers[j].priority
                       => rhandlers[i].reg < rhandlers[j].reg

-----------------------------------------------------------------------------
(* Rendering.                                                              *)

\* A value every JSON encoder renders and that is no redirect.
JSONRenderable(v) ==
    v.k \in {"string", "struct", "map", "page", "badpage"}

\* C5: with Accept: application/xml, application/json a candidate whose
\* rendering fails is skipped for the next one: no consumeHandler call on a
\* value JSON can render fails, and a map returned by a method handler is the
\* body of a 200 application/json response.
C5_FailedCandidateSkipped ==
    req.accept = AcceptXMLThenJSON =>
       /\ \A i \in LogIdx :
             (log[i].ev = "consume" /\ log[i].n # 204 /\ JSONRenderable(log[i].v))
                => log[i].a # "failed"
       /\ \A i \in LogIdx :
             (log[i].ev = "returned" /\ log[i].e = NilErr /\ log[i].v = BodyVal("map"))
                => base.w = <<Write(200, JSONType, BodyVal("map"), "body")>>

\* The header the format is selected from: Accept, or Content-Type when
\* Accept is absent.
SelectionHeader == IF req.accept # <<>> THEN req.accept ELSE req.ctype

\* The Content-Type a rendered body w must carry under SelectionHeader.
FormatSelected(w) ==
    CASE SelectionHeader = <<>>              -> w.ctype = JSONType
      [] SelectionHeader = <<"image/png">>   -> w.ctype = JSONType
      [] SelectionHeader \in {JSONType, <<"application/xml">>, <<"application/yaml">>} ->
            w.ctype = SelectionHeader
      [] SelectionHeader = AcceptXMLThenJSON -> w.ctype = <<"application/xml">>
      [] SelectionHeader = <<"text/plain">>  ->
            w.ctype = IF w.body.k \in {"string", "page"} THEN <<"text/plain">> ELSE JSONType
      [] OTHER -> TRUE

\* C6: the format of every rendered body is selected from Accept, from
\* Content-Type if Accept is absent, and is application/json if both are
\* absent or if the header names no supported format.
C6_FormatSelection ==
    \A i \in 1..Len(base.w) : base.w[i].via = "body" => FormatSelected(base.w[i])

\* A body rendered as XML because Content-Type says so and Accept is absent.
C6_Witness ==
    /\ req.accept = <<>>
    /\ req.ctype = <<"application/xml">>
    /\ \E i \in 1..Len(base.w) :
          base.w[i].via = "body" /\ base.w[i].ctype = <<"application/xml">>

-----------------------------------------------------------------------------
(* README's application.                                                   *)

IsCont(e) == e.ev = "cont"

IsHandler(e) == e.ev = "handler"

HelloWorld == PathOf(<<api, v1, hello, world>>)

HelloWorldRequest == tree = ReadmeTree /\ req.method = "GET" /\ req.path = HelloWorld

\* The four matched segments, each continuation on a Context of its own that
\* holds the remainder after its segment.
HelloWorldDescent ==
    /\ SelectSeq(log, IsCont) =
          << Ev("cont", 1, "Static", 1, NilErr, NilVal),
             Ev("cont", 2, "Static", 2, NilErr, NilVal),
             Ev("cont", 3, "Static", 3, NilErr, NilVal),
             Ev("cont", 4, "String", 4, NilErr, StringVal(world)) >>
    /\ Len(ctxs) = 4
    /\ ctxs[1].pathRemainder = PathOf(<<v1, hello, world>>)
    /\ ctxs[2].pathRemainder = PathOf(<<hello, world>>)
    /\ ctxs[3].pathRemainder = PathOf(<<world>>)
    /\ ctxs[4].pathRemainder = <<>>

\* C7: GET /api/v1/hello/world on README's tree descends through one Context
\* per matched segment, invokes the GET handler once with the captured
\* "world" and ends consumed with status 200 and the handler's return value
\* as the body.
C7_HelloWorld ==
    (HelloWorldRequest /\ Done) =>
       /\ HelloWorldDescent
       /\ SelectSeq(log, IsHandler) = <<Ev("handler", 4, "GET", 5, NilErr, StringVal(world))>>
       /\ base.consumed
       /\ Len(base.w) = 1
       /\ base.w[1].status = 200
       /\ base.w[1].via = "body"
       /\ base.w[1].body = StringVal(<<"Hello, ">> \o world)

\* The request has been answered as text/plain.
C7_Witness ==
    /\ HelloWorldRequest
    /\ Done
    /\ base.w = <<Write(200, <<"text/plain">>, StringVal(<<"Hello, ">> \o world), "body")>>

EmptyCapturePaths == {PathOf(<<api, v1, hello>>), PathOf(<<api, v1, hello>>) \o Slash}

\* C8: String never matches an empty segment: where the path ends at, or has
\* only a trailing slash after, /api/v1/hello the String continuation and the
\* handler are never invoked, and the request ends with RouteNotFound given
\* to handleError; with no error handler installed the fixed fallback is 404
\* and no other status is written.
C8_EmptySegmentNotFound ==
    (tree = ReadmeTree /\ req.path \in EmptyCapturePaths) =>
       /\ \A i \in LogIdx : ~(log[i].ev = "cont" /\ log[i].a = "String")
       /\ \A i \in LogIdx : log[i].ev # "handler"
       /\ Done =>
            /\ \E i \in LogIdx : log[i].ev = "resolve" /\ log[i].e = RouteNotFound
            /\ errHandler = "none" =>
                 /\ \E i \in LogIdx :
                       log[i] = Ev("fallback", 1, "Not Found", 404, RouteNotFound, NilVal)
                 /\ \A n \in 1..Len(base.w) : base.w[n].status = 404

\* The trailing-slash request has ended in the 404 fallback.
C8_Witness ==
    /\ tree = ReadmeTree
    /\ req.path = PathOf(<<api, v1, hello>>) \o Slash
    /\ errHandler = "none"
    /\ Done
    /\ base.w = <<Write(404, JSONType, MessageBody("Not Found"), "body")>>

-----------------------------------------------------------------------------
(* Nil results and the fixed fallback.                                     *)

NilResultKinds == {"nilptr", "nilslice", "nilmap", "nilredirectptr"}

NoContentWrite == Write(204, <<>>, NilVal, "nobody")

\* C9: a method handler returning a nil pointer, slice or map with a nil
\* error gives status 204 with no body under every Accept and Content-Type,
\* and a consumeHandler call with status 204 never writes a body, negotiates
\* a format or fails.
C9_NilResultNoContent ==
    /\ \A i \in LogIdx :
          (log[i].ev = "returned" /\ log[i].e = NilErr /\ log[i].v.k \in NilResultKinds)
             => base.w = <<NoContentWrite>>
    /\ \A n \in 1..Len(base.w) : base.w[n].status = 204 => base.w[n] = NoContentWrite
    /\ \A i \in LogIdx :
          (log[i].ev = "consume" /\ log[i].n = 204) => log[i].a # "failed"

\* A nil map answered with 204 although Accept puts XML first.
C9_Witness ==
    /\ req.accept = AcceptXMLThenJSON
    /\ base.w = <<NoContentWrite>>
    /\ \E i \in LogIdx :
          log[i].ev = "returned" /\ log[i].e = NilErr /\ log[i].v.k = "nilmap"

\* The class of an error: RouteNotFound, BadRequest-classified, or other.
ErrorClass(err) ==
    IF \E k \in 1..Len(err) : err[k].t = "notfound"
    THEN [status |-> 404, message |-> "Not Found"]
    ELSE IF \E k \in 1..Len(err) : err[k].t = "badreq"
    THEN [status |-> 400, message |-> "Bad Request"]
    ELSE [status |-> 500, message |-> "Internal Server Error"]

\* The entry of handleError the log entry at index j belongs to.
ResolveOf(j) ==
    log[CHOOSE i \in 1..j : log[i].ev = "resolve"
                            /\ \A k \in (i + 1)..j : log[k].ev # "resolve"]

\* C10: whenever handleError reaches its fixed fallback, the status and the
\* message are those of the class of the error handleError was given, also
\* when the fallback is reached after a failed render of a UserFacingError or
\* of the installed handler's result.
C10_FallbackClassifiesGivenError ==
    \A j \in LogIdx :
        log[j].ev = "fallback" =>
           /\ log[j].n = ErrorClass(ResolveOf(j).e).status
           /\ log[j].a = ErrorClass(ResolveOf(j).e).message

-----------------------------------------------------------------------------
(* The error resolver's order.                                             *)

\* The links of err that are UserFacingErrors.
UserFacingLinks(err) == {k \in 1..Len(err) : err[k].t = "uf"}

HasUserFacing(err) == UserFacingLinks(err) # {}

\* The first UserFacingError of the chain of err.
UserFacingOf(err) == err[CHOOSE k \in UserFacingLinks(err) : \A m \in UserFacingLinks(err) : k <= m]

\* The write of base.w that the log entry at index j made.
WriteOf(j) == base.w[Cardinality({k \in 1..j : IsWrite(log[k])})]

\* What rendering (status, body) puts on the wire: nothing but the status for
\* 204, the redirect for a Redirect, else that status and that body.
RendersAs(w, status, body) ==
    IF status = 204 THEN w = Write(204, <<>>, NilVal, "nobody")
    ELSE IF body.k \in {"redirect", "redirectptr"} THEN w.via = "redirect" /\ w.body = body
    ELSE w.via = "body" /\ w.status = status /\ w.body = body

\* handleError went on to the installed handler or to the fixed fallback
\* after the log entry at index j.
WentOnAfter(j) == j < Len(log) /\ log[j + 1].ev \in {"errHandler", "fallback"}

\* handleError entered at index i with a UserFacingError in the chain.
UserFacingFirst(i) ==
    /\ log[i + 1].ev = "consume"
    /\ log[i + 1].n = UserFacingOf(log[i].e).status
    /\ log[i + 1].v = UserFacingOf(log[i].e).body
    /\ log[i + 1].a = "wrote" =>
          RendersAs(WriteOf(i + 1), log[i + 1].n, log[i + 1].v)
    /\ log[i + 1].a # "failed" => ~WentOnAfter(i + 1)
    /\ log[i + 1].a = "failed" => WentOnAfter(i + 1)

-----------------------------------------------------------------------------
(* Checks before handlers.                                                 *)

\* Context a is Context c or one of its ancestors.
RECURSIVE IsAncestorOrSelf(_, _)
IsAncestorOrSelf(a, c) ==
    IF c = 0 THEN FALSE
    ELSE IF a = c THEN TRUE
    ELSE IsAncestorOrSelf(a, ctxs[c].parent)

\* The checks registered on Context a before the log entry at index j.
RegisteredBefore(a, j) == {k \in 1..(j - 1) : log[k].ev = "addcheck" /\ log[k].ctx = a}

\* The check registered at index k was evaluated between k and j and
\* returned nil.
PassedBetween(k, j) ==
    \E m \in (k + 1)..(j - 1) :
        /\ log[m].ev = "check"
        /\ log[m].ctx = log[k].ctx
        /\ log[m].n = log[k].n
        /\ log[m].e = NilErr

\* The check evaluated at index m comes right after the passing evaluation of
\* the check registered before it on the same Context, if there is one.
InRegistrationOrder(m) ==
    \A k \in RegisteredBefore(log[m].ctx, m) :
        (/\ log[k].n < log[m].n
         /\ \A k2 \in RegisteredBefore(log[m].ctx, m) : ~(log[k].n < log[k2].n /\ log[k2].n < log[m].n))
        => /\ m > 1
           /\ log[m - 1].ev = "check"
           /\ log[m - 1].ctx = log[m].ctx
           /\ log[m - 1].n = log[k].n
           /\ log[m - 1].e = NilErr

\* The failing check evaluated at index m ends the evaluation: its error goes
\* to handleError and no method handler of its Context or of a descendant is
\* invoked afterwards.
FailureStops(m) ==
    /\ m < Len(log)
    /\ log[m + 1].ev = "resolve"
    /\ log[m + 1].ctx = log[m].ctx
    /\ log[m + 1].e = log[m].e
    /\ \A j \in (m + 1)..Len(log) :
          log[j].ev = "handler" => ~IsAncestorOrSelf(log[m].ctx, log[j].ctx)

\* C12: a method handler function is invoked only after every check
\* registered (by then) on its own Context and on every ancestor Context was
\* evaluated and returned nil; the checks of a Context are evaluated in
\* registration order, evaluation stops at the first failing check, whose
\* error is given to handleError, and no method handler of that Context or of
\* a descendant is invoked afterwards.
C12_ChecksBeforeHandlers ==
    /\ \A j \in LogIdx :
          log[j].ev = "handler" =>
             \A a \in 1..Len(ctxs) :
                IsAncestorOrSelf(a, log[j].ctx) =>
                   \A k \in RegisteredBefore(a, j) : PassedBetween(k, j)
    /\ \A m \in LogIdx :
          log[m].ev = "check" =>
             /\ InRegistrationOrder(m)
             /\ log[m].e # NilErr => FailureStops(m)

\* A handler of a child Context invoked after the two checks of its parent
\* were evaluated.
C12_Witness ==
    \E j \in LogIdx :
        /\ log[j].ev = "handler"
        /\ ctxs[log[j].ctx].parent # 0
        /\ Cardinality(RegisteredBefore(ctxs[log[j].ctx].parent, j)) = 2
        /\ Cardinality({m \in 1..j : log[m].ev = "check"}) >= 2

-----------------------------------------------------------------------------
(* The client address.                                                     *)

\* The transport peer address: the IP that RemoteAddr's host names.
Peer == ParseIP(remoteAddr.host)

\* The items of the table whose range holds the peer.
PeerRanges == {i \in 1..Len(knownProxies) : Contains(knownProxies[i].cidr, Peer)}

\* The forwarding header of range i is present and holds a valid IP.
Forwarded(i) == ParseIP(header[knownProxies[i].header]) # <<>>

\* C13: for a peer inside a trusted range whose forwarding header is present
\* and valid, RemoteIP returns the header's IP while auto-detection is
\* enabled and the peer address once DisableAutoProxy was called; for a peer
\* in no trusted range it returns the peer address whatever the forwarding
\* headers are.
C13_RemoteIP ==
    (remoteIP.called /\ Peer # <<>>) =>
       /\ \A i \in PeerRanges :
             Forwarded(i) =>
                remoteIP.ip = IF disableAutoProxy THEN Peer
                              ELSE ParseIP(header[knownProxies[i].header])
       /\ PeerRanges = {} => remoteIP.ip = Peer

\* A Cloudflare peer at the far edge of its range, answered with the address
\* of CF-Connecting-IP.
C13_Witness ==
    /\ remoteIP.called
    /\ remoteAddr.host = "173.245.63.255"
    /\ header["CF-Connecting-IP"] = "198.51.100.7"
    /\ ~disableAutoProxy
    /\ remoteIP.ip = <<198, 51, 100, 7>>

-----------------------------------------------------------------------------
(* Redirects.                                                              *)

IsRedirect(v) == v.k \in {"redirect", "redirectptr"}

\* The consumeHandler calls that were given a Redirect or a non-nil *Redirect
\* while no response was written yet.
RedirectRenders == {i \in LogIdx : log[i].ev = "consume" /\ IsRedirect(log[i].v) /\ log[i].a # "noop"}

\* The call logged at index i issued the redirect: 307 or 308 by Permanent,
\* no content type chosen and no body serialized.
RedirectIssued(i) ==
    /\ log[i].a = "wrote"
    /\ WriteOf(i) = Write(IF log[i].v.perm THEN 308 ELSE 307, <<>>, log[i].v, "redirect")
    /\ base.consumed

\* C14 as stated: every Redirect to render, a handler's result or the Body()
\* of an error, is answered with the redirect.
C14_AlwaysRedirect == \A i \in RedirectRenders : RedirectIssued(i)

\* C14: a Redirect to render is never negotiated or serialized and consumes
\* the request; it is answered with the redirect, 307 or 308 by Permanent,
\* unless the status it comes with is 204, which is answered with the bare
\* 204.
C14_RedirectUnlessNoContent ==
    \A i \in RedirectRenders :
        IF log[i].n = 204
        THEN log[i].a = "wrote" /\ WriteOf(i) = NoContentWrite /\ base.consumed
        ELSE RedirectIssued(i)

\* A permanent Redirect thrown as an error and answered with 308.
C14_Witness ==
    \E i \in RedirectRenders :
        /\ i > 1
        /\ log[i - 1].ev = "resolve"
        /\ log[i].v.perm
        /\ RedirectIssued(i)
        /\ WriteOf(i).status = 308

\* C15: whenever a nil *Redirect is the value to render and no response was
\* written yet, the render is reported as an error and the request does not
\* end with a 2xx or 3xx response.
C15_NilRedirectIsError ==
    \A i \in LogIdx :
        (log[i].ev = "consume" /\ log[i].v.k = "nilredirectptr" /\ log[i].a # "noop") =>
           /\ log[i].a = "failed"
           /\ \A k \in 1..Len(base.w) : base.w[k].status >= 400

-----------------------------------------------------------------------------
(* Decoding the input.                                                     *)

\* The log entry at index j belongs to the methodHandler call of the entry
\* at index i: no other call took its input in between.
SameCall(i, j) == \A k \in (i + 1)..j : log[k].ev # "input"

\* The decode that failed at index i ends the call: handleError gets a
\* BadRequest, no other target is decoded and the handler function is not
\* invoked.
DecodeFailureIsBadRequest(i) ==
    /\ i < Len(log)
    /\ log[i + 1].ev = "resolve"
    /\ log[i + 1].ctx = log[i].ctx
    /\ IsBadRequest(log[i + 1].e)
    /\ \A j \in (i + 1)..Len(log) :
          SameCall(i, j) => log[j].ev \notin {"decode", "handler"}

\* C16: a decode failure on any target gives handleError an error that
\* IsBadRequest accepts, the handler function is not invoked and the
\* remaining targets are not decoded; a GET decodes from the query string and
\* never reads the body.
C16_DecodeFailureIsBadRequest ==
    \A i \in LogIdx :
        /\ (log[i].ev = "decode" /\ log[i].e # NilErr) => DecodeFailureIsBadRequest(i)
        /\ (log[i].ev = "input" /\ req.method = "GET") => log[i].a = "query"

\* The first of two targets fails to decode and the request is answered
\* 400.
C16_Witness ==
    /\ Done
    /\ \E i \in LogIdx :
          /\ log[i].ev = "decode"
          /\ log[i].n = 1
          /\ log[i].e # NilErr
          /\ tree = LateLiteralTree
    /\ Len(base.w) = 1
    /\ base.w[1].status = 400

-----------------------------------------------------------------------------
(* When a method handler is invoked.                                       *)

\* The registration of the handler invoked at index j.
RegistrationOf(j) ==
    CHOOSE k \in 1..j : log[k].ev = "register" /\ log[k].n = log[j].n

\* C17: a method handler function is invoked only while no response was
\* written, for the request's method, and when the match whose continuation
\* registered it left an empty remainder.
C17_HandlerOnlyOnEmptyRemainder ==
    \A j \in LogIdx :
        log[j].ev = "handler" =>
           /\ \A k \in 1..j : ~IsWrite(log[k])
           /\ log[j].a = req.method
           /\ log[RegistrationOf(j)].a = req.method
           /\ log[RegistrationOf(j)].v.s = <<>>

-----------------------------------------------------------------------------
(* The WebSocket branch.                                                   *)

\* C18: the transport is upgraded and the WebSocket handler invoked only
\* after every check registered on that Context was evaluated and returned
\* nil.
C18_ChecksBeforeUpgrade ==
    \A j \in LogIdx :
        log[j].ev \in {"upgrade", "wsHandler"} =>
           \A k \in RegisteredBefore(log[j].ctx, j) : PassedBetween(k, j)

-----------------------------------------------------------------------------
(* Panics.                                                                 *)

\* C19: a panic raised under whatever matcher, top-level ones included,
\* never leaves ServeHTTP: it is recovered, converted to an error and given
\* to handleError.
C19_PanicRecovered ==
    /\ phase # "panicked"
    /\ \A i \in LogIdx :
          log[i].ev = "panic" =>
             /\ i < Len(log)
             /\ log[i + 1].ev = "resolve"
             /\ log[i + 1].e = PlainErr(log[i].e[1].name)

-----------------------------------------------------------------------------
(* WebSocket or GET.                                                       *)

\* The request asks for a WebSocket: Connection names upgrade and Upgrade is
\* websocket, in the spelling browsers send.
AsksUpgrade ==
    /\ \E i \in 1..Len(req.connection) : req.connection[i] = "Upgrade"
    /\ req.upgrade = "WebSocket"

\* The afterExecute calls on a GET request whose Context has a GET handler
\* and an empty remaining path.
GetEntries ==
    {i \in LogIdx : /\ log[i].ev = "afterExecute"
                    /\ req.method = "GET"
                    /\ log[i].n # 0
                    /\ log[i].v.s = <<>>}

\* The log entries of the afterExecute call entered at index i, up to the
\* next continuation or afterExecute call.
InCall(i) ==
    {j \in (i + 1)..Len(log) : \A k \in (i + 1)..j : log[k].ev \notin {"afterExecute", "cont"}}

GetInvoked(i) ==
    \E j \in InCall(i) : log[j].ev = "handler" /\ log[j].a = "GET" /\ log[j].n = log[i].n

\* The deferred GET handler is run by the call entered at index i: its
\* function is invoked unless a check of the Context or the decoding of its
\* input fails; and the call attempts no upgrade.
GetRuns(i) ==
    /\ \/ GetInvoked(i)
       \/ \E j \in InCall(i) : log[j].ev \in {"check", "decode"} /\ log[j].e # NilErr
    /\ \A j \in InCall(i) : log[j].ev # "upgrade"

\* The call entered at index i attempts the upgrade and never invokes the
\* GET handler.
UpgradeAttempted(i) ==
    /\ i < Len(log)
    /\ log[i + 1].ev = "upgrade"
    /\ ~GetInvoked(i)

\* The handshake succeeded and the WebSocket handler ran.
SocketRan(i) == log[i + 1].a = "ok" /\ i + 1 < Len(log) /\ log[i + 2].ev = "wsHandler"

\* C20 as stated: with the upgrade headers the upgrade is performed and the
\* WebSocket handler runs.
C20_UpgradePerformed ==
    \A i \in GetEntries :
        (log[i].a = "ws" /\ AsksUpgrade) => (UpgradeAttempted(i) /\ SocketRan(i))

\* C20: on a GET request with an empty remaining path, a Context with a
\* WebSocket and a GET handler attempts the upgrade if the upgrade headers are
\* sent, runs the WebSocket handler if the handshake succeeds and never
\* invokes the GET handler; without the headers, and on a Context without a
\* WebSocket, the deferred GET handler is run and no upgrade is attempted.
C20_UpgradeOrGet ==
    \A i \in GetEntries :
        IF log[i].a = "ws" /\ AsksUpgrade
        THEN /\ UpgradeAttempted(i)
             /\ log[i + 1].a = "ok" => SocketRan(i)
             /\ log[i + 1].a # "ok" => \A j \in InCall(i) : log[j].ev # "wsHandler"
        ELSE GetRuns(i)

\* A Context with a WebSocket and a GET handler is asked for the upgrade: the
\* handshake succeeds and the WebSocket handler runs.
C20_Witness ==
    \E i \in GetEntries :
        /\ log[i].a = "ws"
        /\ AsksUpgrade
        /\ UpgradeAttempted(i)
        /\ SocketRan(i)

-----------------------------------------------------------------------------
(* After an upgrade attempt.                                               *)

\* Nothing is written, no matcher is tried and no check or handler is run
\* after the log entry at index j.
NothingMoreAfter(j) ==
    \A k \in (j + 1)..Len(log) :
        /\ log[k].ev \notin {"cont", "check", "handler", "upgrade", "afterExecute"}
        /\ log[k].ev = "consume" => log[k].a = "noop"

\* C21: once an upgrade was attempted the request is consumed and nothing
\* more is written for it; a handshake error ends the request without
\* handleError; an error of the WebSocket handler goes to handleError, which
\* writes nothing; no further matcher is tried.
C21_UpgradeConsumes ==
    \A j \in LogIdx :
        log[j].ev = "upgrade" =>
           /\ base.consumed
           /\ NothingMoreAfter(j)
           /\ log[j].a = "failed" => j = Len(log)
           /\ \A k \in (j + 1)..Len(log) :
                 log[k].ev = "wsHandler" =>
                    IF log[k].e = NilErr THEN k = Len(log)
                    ELSE /\ k < Len(log)
                         /\ log[k + 1].ev = "resolve"
                         /\ log[k + 1].e = log[k].e

\* The WebSocket handler returned an error after the handshake; the error
\* reached the installed error handler and the request ended with the
\* handshake as its only write.
C21_Witness ==
    /\ Done
    /\ Len(base.w) = 1
    /\ \E j \in LogIdx :
          /\ log[j].ev = "upgrade"
          /\ j < Len(log)
          /\ log[j + 1].ev = "wsHandler"
          /\ log[j + 1].e # NilErr
          /\ \E k \in (j + 2)..Len(log) : log[k].ev = "errHandler"

-----------------------------------------------------------------------------
(* The scan of a matcher list.                                             *)

\* The log entry at index k is the continuation of the matcher at index i of
\* the list frame f scans, invoked with what its check matched.
ContOf(f, i, k) ==
    /\ log[k].ev = "cont"
    /\ log[k].n = ScanList(f)[i].reg
    /\ log[k].v = HandlerCheck(ScanList(f)[i], ScanPath(f)).val
    /\ IF f.k = "serve" THEN log[k].ctx = 1
       ELSE /\ ctxs[log[k].ctx].parent = f.ctx
            /\ ctxs[log[k].ctx].pathRemainder
                  = HandlerCheck(ScanList(f)[i], ScanPath(f)).remainder

ContsOf(f, i) == {k \in LogIdx : ContOf(f, i, k)}

Latest(S) == CHOOSE k \in S : \A m \in S : m <= k

LastContOf(f, i) == Latest(ContsOf(f, i))

\* The matchers frame f has gone past: each that matches had its
\* continuation invoked, in list order.
ScannedInOrder(f) ==
    \A i \in 1..(f.pc - 1) :
        HandlerCheck(ScanList(f)[i], ScanPath(f)).ok
           => /\ ContsOf(f, i) # {}
              /\ \A j \in 1..(i - 1) :
                    HandlerCheck(ScanList(f)[j], ScanPath(f)).ok
                       => LastContOf(f, j) < LastContOf(f, i)

\* The continuation a top-level match has just been given runs on the
\* remainder the match left.
TopLevelRemainder ==
    (Len(stack) = 2 /\ stack[1].k = "serve" /\ stack[2].k = "hn" /\ stack[2].pc = 1)
       => ctxs[1].pathRemainder
             = HandlerCheck(rhandlers[stack[1].pc - 1], req.path).remainder

\* Two continuations of one level: nothing was written from the first being
\* invoked to the second.
SameLevel(i, j) == ctxs[log[i].ctx].parent = ctxs[log[j].ctx].parent

StopsWhenConsumed ==
    \A k \in LogIdx :
        IsWrite(log[k])
           => \A j \in (k + 1)..Len(log) :
                 log[j].ev = "cont"
                    => \A i \in 1..(k - 1) : ~(log[i].ev = "cont" /\ SameLevel(i, j))

\* ServeHTTP resolved RouteNotFound at the log entry of index j.
NotFoundAt(j) == log[j].ev = "resolve" /\ log[j].e = RouteNotFound

\* RouteNotFound is resolved exactly when the top-level scan ended with
\* nothing written, after every top-level matcher was gone past.
NotFoundWhenUnconsumed ==
    /\ \A j \in LogIdx : NotFoundAt(j) => \A k \in 1..j : ~IsWrite(log[k])
    /\ Done => (base.consumed \/ \E j \in LogIdx : NotFoundAt(j))

\* C22: at the Router and in every Context the matchers are scanned in list
\* order against the remaining path; each one whose check succeeds has its
\* continuation executed with what it matched and the remainder; once a
\* continuation has consumed the request no further matcher of the level is
\* tried, otherwise the scan goes on with the next one; a top-level scan that
\* ends unconsumed resolves RouteNotFound.
C22_ScanInOrder ==
    /\ \A n \in ScanFrames : ScannedInOrder(stack[n])
    /\ TopLevelRemainder
    /\ StopsWhenConsumed
    /\ NotFoundWhenUnconsumed

\* Two top-level matchers matched: the subtree of the first did not consume,
\* that of the second wrote the response, and no RouteNotFound was resolved.
C22_Witness ==
    /\ Done
    /\ Len(base.w) = 1
    /\ \A j \in LogIdx : ~NotFoundAt(j)
    /\ \E i \in LogIdx : \E j \in LogIdx :
          /\ i < j
          /\ log[i].ev = "cont" /\ log[i].ctx = 1
          /\ log[j].ev = "cont" /\ log[j].ctx = 1
          /\ log[i].n # log[j].n

-----------------------------------------------------------------------------
(* What the installed error handler is given.                              *)

\* C23: whenever handleError invokes the installed error handler, the error
\* it passes is the one handleError was given, also when the handler is
\* reached after a UserFacingError of that error's chain failed to render.
C23_ErrHandlerGetsOriginal ==
    \A j \in LogIdx :
        log[j].ev = "errHandler" => log[j].e = ResolveOf(j).e

-----------------------------------------------------------------------------
(* The Context a continuation is given.                                    *)

\* A continuation has just been invoked and has not run a statement yet.
ContinuationEntered == InBody /\ Top.pc = 1

\* C24: every continuation, that of a top-level matcher of the Router
\* included, starts on a Context that holds its own remainder and nothing
\* else: no matcher, no check, no GET handler and no WebSocket binding, so
\* nothing a sibling tried before it registered.
C24_FreshContext ==
    ContinuationEntered
       => ctxs[Top.ctx] = NewContext(ctxs[Top.ctx].pathRemainder, ctxs[Top.ctx].parent)

-----------------------------------------------------------------------------
(* A forwarding header that is no IP.                                      *)

\* The forwarding header of range i is present.
Present(i) == header[knownProxies[i].header] # ""

\* C25: with auto-detection enabled and the peer inside a trusted range, the
\* forwarding header replaces the peer address only if it is present and
\* parses as an IP; a header that is present but parses as no IP leaves
\* RemoteIP returning the peer address.
C25_UnparseableHeaderKeepsPeer ==
    (remoteIP.called /\ Peer # <<>> /\ ~disableAutoProxy) =>
       \A i \in PeerRanges :
          /\ remoteIP.ip # Peer => (Present(i) /\ Forwarded(i))
          /\ (Present(i) /\ ~Forwarded(i)) => remoteIP.ip = Peer

-----------------------------------------------------------------------------
(* Parameters of an Accept candidate.                                      *)

\* The header s with every parameter dropped: what is left of each candidate
\* is its content type.
RECURSIVE WithoutParams(_, _)
WithoutParams(s, inParam) ==
    IF s = <<>> THEN <<>>
    ELSE IF Head(s) = "," THEN <<",">> \o WithoutParams(Tail(s), FALSE)
    ELSE IF inParam \/ Head(s) = ";" THEN WithoutParams(Tail(s), TRUE)
    ELSE <<Head(s)>> \o WithoutParams(Tail(s), FALSE)

\* The consumeHandler call logged at index j went through the negotiation.
Negotiated(j) ==
    /\ log[j].ev = "consume"
    /\ log[j].a \in {"wrote", "failed"}
    /\ log[j].n # 204
    /\ ~IsRedirect(log[j].v) /\ log[j].v.k # "nilredirectptr"

\* The call logged at index j did what the rendering bare does.
RenderedAs(j, bare) ==
    IF log[j].a = "wrote" THEN bare.wrote /\ WriteOf(j) = bare.w
    ELSE ~bare.wrote /\ log[j].e = bare.err

\* C26: the parameters of an Accept candidate play no part in selecting the
\* format: every render does what it would do under the same header with the
\* parameters removed, candidates tried in header order.
C26_ParametersIgnored ==
    \A j \in LogIdx :
        Negotiated(j)
           => RenderedAs(j, renderParts(SplitComma(WithoutParams(chosenAccept(req), FALSE)),
                                        log[j].n, log[j].v))

-----------------------------------------------------------------------------
(* How often a check runs.                                                 *)

\* The evaluations of checks, and those that failed.
CheckRuns == {i \in LogIdx : log[i].ev = "check"}

FailedCheckRuns == {i \in CheckRuns : log[i].e # NilErr}

\* C27: within one request each check registered on a Context is evaluated
\* at most once, and a failing check is handed to handleError at most once,
\* whatever the request method.
C27_CheckOnce ==
    /\ \A i \in CheckRuns : \A j \in CheckRuns : log[i].n = log[j].n => i = j
    /\ Cardinality(FailedCheckRuns) <= 1

-----------------------------------------------------------------------------
(* After the request is consumed.                                          *)

\* The request was consumed before the log entry at index j: the response
\* was written or the upgrade attempted.
ConsumedBefore(j) == \E k \in 1..(j - 1) : IsWrite(log[k])

\* C28: once the request is consumed no check is evaluated and no matcher's
\* continuation is invoked any more, in particular not by the afterExecute
\* of a Context whose deferred GET handler has written the response.
C28_NothingAfterConsumed ==
    \A j \in LogIdx :
        log[j].ev \in {"check", "cont"} => ~ConsumedBefore(j)

-----------------------------------------------------------------------------
(* How often a method handler runs.                                        *)

\* The invocations of method handler functions.
HandlerRuns == {i \in LogIdx : log[i].ev = "handler"}

\* C29: within one request each registered method handler function is
\* invoked at most once, whatever the route tree, the headers and the
\* handler's outcome, outcomes that end with no response written included.
C29_HandlerOnce ==
    \A i \in HandlerRuns : \A j \in HandlerRuns : log[i].n = log[j].n => i = j

====
